---- MODULE Spec2Model ----
(***************************************************************************)
(* A model of tarotcli: the deck, its construction and lookup_card         *)
(* (tarotcli/deck.py), the spread layouts (tarotcli/spreads.py), the       *)
(* interpretation step (tarotcli/ai.py), the `read` command                *)
(* (tarotcli/cli.py, tarotcli/ui.py) and the stored readings               *)
(* (tarotcli/persistence.py).                                              *)
(*                                                                         *)
(* Python values are modelled as follows.  A pydantic object is a record   *)
(* holding exactly the fields its class declares.  A str is the sequence   *)
(* of its pieces (each piece a TLA+ string), so that an f-string or a      *)
(* join is a concatenation and "" is the empty sequence; None is a value   *)
(* distinct from every str.  The outcome of a call is a record that        *)
(* either returns a value or raises an exception.                          *)
(***************************************************************************)
EXTENDS Integers, Sequences, FiniteSets, TLC

VARIABLES
    cards,        \* TarotDeck.cards: the catalog, in load order
    remaining,    \* TarotDeck.remaining: cards not yet drawn
    deckRet,      \* outcome of the last TarotDeck call (return value or raise)
    lastOp,       \* history: the last TarotDeck call, its argument, `remaining` before it
    drawnSince,   \* history: cards returned by draw since the last shuffle/reset
    cycles,       \* history: consecutive completed shuffle + draw(all) cycles
    constructed,  \* history: `remaining` right after __init__
    cardsArg,     \* the list given to create_reading, as it is after the call
    spreadRet,    \* outcome of the create_reading call
    spreadArgs,   \* history: the arguments of the create_reading call
    againRet,     \* outcome of a second create_reading call on the same arguments
    aiRet,        \* outcome of the interpret_reading call on spreadRet's Reading
    aiArgs,       \* history: the arguments of the interpret_reading call
    pc,           \* position of the `read` command
    rd,           \* locals of the `read` command: reading, use_ai
    readRet,      \* how the `read` command ended
    readOut,      \* what the `read` command wrote to stdout
    readErr,      \* what the `read` command wrote to stderr
    source,       \* the file TarotDeck(data_path) is constructed from
    loadRet,      \* outcome of TarotDeck(data_path)
    lookupArg,    \* the search_term of the lookup_card call
    lookupSearch, \* history: search_lower when lookup_card matches
    lookupRet,    \* outcome of the lookup_card call
    store,        \* the file at ReadingPersistence.readings_path
    storeLog,     \* history: the writes made to the store, each with its reading and result
    storeRet,     \* the last ReadingPersistence call, its n, its result, the file before it
    userConfig,   \* Config._user_config: the user's config.yaml as loaded
    mergedConfig, \* Config._merged_config
    environ,      \* os.environ
    configRet,    \* the Config.get call just made: its arguments and its result
    aiRun,        \* one interpret_reading call in steps: position, provider calls, events
    clearRun      \* one run of the clear-history command: position, arguments, answers

deckVars == <<cards, remaining, deckRet, lastOp, drawnSince, cycles, constructed>>

spreadVars == <<cardsArg, spreadRet, spreadArgs, againRet, aiRet, aiArgs>>

readVars == <<pc, rd, readRet, readOut, readErr>>

loadVars == <<source, loadRet>>

\* state of the calls outside the deck, the reading and the `read` command
lookupVars == <<lookupArg, lookupSearch, lookupRet>>

storeVars == <<store, storeLog, storeRet>>

configVars == <<userConfig, mergedConfig, environ, configRet>>

cmdVars == <<aiRun, clearRun>>

libVars == <<loadVars, lookupVars, storeVars, configVars, cmdVars>>

vars == <<deckVars, spreadVars, readVars, libVars>>

----------------------------------------------------------------------------
(* Bounds *)

\* Number of records in the dataset; stands for the 78 of deck.py:118.
DeckSize == 3

\* Saturation point of the `cycles` history counter.
MaxCycles == 2

\* Number of save calls made on one store.
MaxSaves == 3

\* Number of lines of a store found on disk.
MaxLines == 2

\* Number of provider calls followed within one interpret_reading call.
MaxCalls == 2

\* value_int of a dataset record.
ValueInts == {0, 1}

\* `count` arguments of draw: a negative one, zero, every drawable
\* number and one more than the deck holds.
Counts == (0 - 1) .. (DeckSize + 1)

\* `question` arguments: none, the empty str, a question
Questions == {<<"<None>">>, <<>>, <<"Should I freelance?">>}

\* values of datetime.now(timezone.utc).isoformat()
Timestamps == {<<"2025-11-04T14:30:00+00:00">>, <<"2025-11-05T09:00:00+00:00">>}

----------------------------------------------------------------------------
(* Python helpers *)

\* None: no str of the program consists of this piece
None == <<"<None>">>

\* str(n) for an int n, as in an f-string
Str(n) == <<ToString(n)>>

\* bool(x) of a value that is a str or None
Truthy(x) == x # None /\ x # <<>>

Return(v) == [kind |-> "return", value |-> v]

\* raise typer.Exit(code)
Exit(code) == [kind |-> "exit", code |-> code]

\* no call made yet
NotCalled == [kind |-> "none"]

Raise(exc, msg) == [kind |-> "raise", exc |-> exc, msg |-> msg]

Min(a, b) == IF a < b THEN a ELSE b

Range(s) == {s[i] : i \in DOMAIN s}

\* s[k+1:], the list without its first k elements
DropFirst(s, k) == [i \in 1 .. (Len(s) - k) |-> s[i + k]]

----------------------------------------------------------------------------
(* models.py *)

\* Card: id and value_int are stored; the text fields of a dataset record
\* are distinct per card and are derived from the id.
Card(id, v) == [id |-> id, value_int |-> v]

CardName(c) == <<"name-of-" \o ToString(c.id)>>

UprightMeaning(c) == <<"upright-meaning-of-" \o ToString(c.id)>>

ReversedMeaning(c) == <<"reversed-meaning-of-" \o ToString(c.id)>>

CardDescription(c) == <<"description-of-" \o ToString(c.id)>>

DrawnCard(c, rev, pos) ==
    [card |-> c, reversed |-> rev, position |-> pos, position_meaning |-> <<>>]

\* variant of effective_meaning: the orientation is ignored
EffectiveMeaningUpright(dc) == UprightMeaning(dc.card)

\* DrawnCard.effective_meaning
effective_meaning(dc) ==
    IF dc.reversed THEN ReversedMeaning(dc.card) ELSE UprightMeaning(dc.card)

----------------------------------------------------------------------------
(* deck.py *)

\* The dataset files the deck is constructed from: DeckSize valid records
\* with distinct ids, in file order, with any value_int each.
DataFiles ==
    {[i \in 1 .. DeckSize |-> Card(i, v[i])] : v \in [1 .. DeckSize -> ValueInts]}

\* list.sort(key=...): a stable insertion of x into the sorted list s
RECURSIVE InsertByValueInt(_, _)
InsertByValueInt(s, x) ==
    IF s = <<>> THEN <<x>>
    ELSE IF s[Len(s)].value_int <= x.value_int THEN Append(s, x)
    ELSE Append(InsertByValueInt(SubSeq(s, 1, Len(s) - 1), x), s[Len(s)])

RECURSIVE SortByValueInt(_)
SortByValueInt(s) ==
    IF s = <<>> THEN <<>>
    ELSE InsertByValueInt(SortByValueInt(SubSeq(s, 1, Len(s) - 1)), s[Len(s)])

\* __init__: self.cards after the load and the sort
LoadCatalog(file) == SortByValueInt(file)

\* every order random.shuffle can leave the list s in
ShuffledOrders(s) ==
    {[i \in 1 .. Len(s) |-> s[p[i]]] :
        p \in {q \in [1 .. Len(s) -> 1 .. Len(s)] :
                 \A i, j \in 1 .. Len(s) : q[i] = q[j] => i = j}}

\* variant of ShuffleOutcomes: the cards left are shuffled, none restored
ShuffleInPlace(all, rem) == ShuffledOrders(rem)

\* shuffle: the values `remaining` can have after the call.  The optional
\* seed only selects which of these orders comes out.
ShuffleOutcomes(all, rem) == ShuffledOrders(all)

\* draw, line 184: the guard of the raise
DrawTooMany(count, rem) == count > Len(rem)

\* variant of DrawError: the number remaining is reported one too low
DrawErrorOffByOne(count, rem) ==
    Raise("ValueError",
          <<"Cannot draw ">> \o Str(count) \o <<" cards, only ">>
              \o Str(Len(rem) - 1) \o <<" remaining">>)

\* draw, lines 185-187: the exception raised
DrawError(count, rem) ==
    Raise("ValueError",
          <<"Cannot draw ">> \o Str(count) \o <<" cards, only ">>
              \o Str(Len(rem)) \o <<" remaining">>)

\* range(count) has max(count, 0) elements
RangeLen(count) == IF count < 0 THEN 0 ELSE count

\* variant of DrawnList: positions continue from the earlier draws
DrawnListCumulative(rem, count, flags) ==
    [i \in 1 .. RangeLen(count) |->
        DrawnCard(rem[i], flags[i], (DeckSize - Len(rem)) + i - 1)]

\* variant of DrawnList: the top card is read but never popped
DrawnListPeek(rem, count, flags) ==
    [i \in 1 .. RangeLen(count) |-> DrawnCard(rem[1], flags[i], i - 1)]

\* draw, lines 189-197: the list returned; the i-th pop(0) takes rem[i]
DrawnList(rem, count, flags) ==
    [i \in 1 .. RangeLen(count) |-> DrawnCard(rem[i], flags[i], i - 1)]

\* variant of RemainingAfterDraw: drawn cards stay in the deck
RemainingKeepsAll(rem, count) == rem

\* draw, line 191: `remaining` after the pops
RemainingAfterDraw(rem, count) == DropFirst(rem, RangeLen(count))

\* variant of ResetOutcome: reset leaves `remaining` alone
ResetKeepsRemaining(all, rem) == rem

\* reset, line 209
ResetOutcome(all, rem) == all

----------------------------------------------------------------------------
(* models.py: FocusArea and Reading *)

\* FocusArea: the values of the enum, '_' being a piece of its own
FocusAreas ==
    {<<"career">>, <<"relationships">>, <<"personal", "_", "growth">>,
     <<"spiritual">>, <<"general">>}

\* Reading(...): the fields the model declares
Reading(spread_type, focus_area, question, drawn, interpretation, baseline, timestamp) ==
    [spread_type |-> spread_type,
     focus_area |-> focus_area,
     question |-> question,
     cards |-> drawn,
     interpretation |-> interpretation,
     baseline_interpretation |-> baseline,
     timestamp |-> timestamp]

\* obj.name on a pydantic object: its field, or AttributeError
GetAttr(obj, name) ==
    IF name \in DOMAIN obj
    THEN Return(obj[name])
    ELSE Raise("AttributeError",
               <<"object has no attribute '", name, "'">>)

----------------------------------------------------------------------------
(* str methods used on spread names and focus values *)

\* s.replace(old, new), old and new being single pieces
Replace(s, old, new) == [i \in DOMAIN s |-> IF s[i] = old THEN new ELSE s[i]]

\* word.title() of the lower-case words that occur
TitleWord(w) ==
    CASE w = "career" -> "Career"
      [] w = "relationships" -> "Relationships"
      [] w = "personal" -> "Personal"
      [] w = "growth" -> "Growth"
      [] w = "spiritual" -> "Spiritual"
      [] w = "general" -> "General"
      [] w = "single" -> "Single"
      [] w = "three" -> "Three"
      [] w = "celtic" -> "Celtic"
      [] w = "card" -> "Card"
      [] w = "cross" -> "Cross"
      [] OTHER -> w

\* s.title()
Title(s) == [i \in DOMAIN s |-> TitleWord(s[i])]

\* sep.join(parts)
RECURSIVE Join(_, _)
Join(parts, sep) ==
    IF parts = <<>> THEN <<>>
    ELSE IF Len(parts) = 1 THEN parts[1]
    ELSE parts[1] \o sep \o Join(Tail(parts), sep)

Orientation(dc) == IF dc.reversed THEN <<"Reversed">> ELSE <<"Upright">>

----------------------------------------------------------------------------
(* spreads.py *)

SpreadLayout(name, display_name, positions) ==
    [name |-> name, display_name |-> display_name, positions |-> positions]

SINGLE_CARD ==
    SpreadLayout(<<"single", "_", "card">>, <<"Single Card">>, << <<"Present">> >>)

THREE_CARD ==
    SpreadLayout(<<"three", "_", "card">>, <<"Three Card Spread">>,
                 << <<"Past">>, <<"Present">>, <<"Future">> >>)

CELTIC_CROSS ==
    SpreadLayout(<<"celtic", "_", "cross">>, <<"Celtic Cross">>,
                 << <<"Present Situation">>, <<"Challenge/Crossing">>,
                    <<"Distant Past/Foundation">>, <<"Recent Past">>,
                    <<"Possible Future">>, <<"Near Future">>,
                    <<"Self Perception">>, <<"External Influences">>,
                    <<"Hopes and Fears">>, <<"Outcome">> >>)

SpreadKeys == {<<"single">>, <<"three">>, <<"celtic">>}

SPREADS ==
    [k \in SpreadKeys |->
        IF k = <<"single">> THEN SINGLE_CARD
        ELSE IF k = <<"three">> THEN THREE_CARD
        ELSE CELTIC_CROSS]

card_count(spread) == Len(spread.positions)

\* get_spread(name)
get_spread(name) ==
    IF name \notin DOMAIN SPREADS
    THEN Raise("ValueError",
               <<"Unknown spread '">> \o name
                   \o <<"'. Available: ", "single", ", ", "three", ", ", "celtic">>)
    ELSE Return(SPREADS[name])

\* _generate_baseline, lines 94-99: the part of one card
BaselineCardPart(dc) ==
    <<"## ">> \o dc.position_meaning \o <<": ">> \o CardName(dc.card)
        \o <<" (">> \o Orientation(dc) \o <<")\n">> \o effective_meaning(dc)

\* _generate_baseline
GenerateBaseline(spread, drawn, focus_area, question) ==
    LET head == << <<"# ">> \o spread.display_name >>
        asked == IF Truthy(question)
                 THEN << <<"\n**Question**: ">> \o question >>
                 ELSE <<>>
        focus == << <<"**Focus**: ">> \o Title(Replace(focus_area, "_", " ")),
                    <<>> >>
        body == [i \in DOMAIN drawn |-> BaselineCardPart(drawn[i])]
    IN  Join(head \o asked \o focus \o body, <<"\n">>)

\* variant of CountMismatch: only too many cards are refused
CountsExceed(drawn, spread) == Len(drawn) > Len(spread.positions)

\* variant of CountMismatch: only too few cards are refused
CountsFewer(drawn, spread) == Len(drawn) < Len(spread.positions)

\* create_reading, line 48: the guard of the raise
CountMismatch(drawn, spread) == Len(drawn) # Len(spread.positions)

\* create_reading, lines 49-52: the exception raised
CountError(drawn, spread) ==
    Raise("ValueError",
          <<"Spread '">> \o spread.name \o <<"' requires ">>
              \o Str(Len(spread.positions)) \o <<" cards, ">>
              \o <<"got ">> \o Str(Len(drawn)))

\* variant of AssignPositions: the labels are handed out last to first
AssignPositionsBackwards(drawn, spread) ==
    [i \in DOMAIN drawn |->
        IF i <= Len(spread.positions)
        THEN [drawn[i] EXCEPT !.position_meaning =
                  spread.positions[Len(spread.positions) + 1 - i]]
        ELSE drawn[i]]

\* create_reading, lines 55-56: zip stops at the shorter of the two lists
AssignPositions(drawn, spread) ==
    [i \in DOMAIN drawn |->
        IF i <= Len(spread.positions)
        THEN [drawn[i] EXCEPT !.position_meaning = spread.positions[i]]
        ELSE drawn[i]]

\* variant of create_reading: the baseline carries the time of the call
create_reading_stamped(spread, drawn, focus_area, question, now) ==
    IF CountMismatch(drawn, spread)
    THEN [ret |-> CountError(drawn, spread), cards |-> drawn]
    ELSE LET placed == AssignPositions(drawn, spread)
         IN  [ret |-> Return(Reading(spread.name, focus_area, question, placed, None,
                                     GenerateBaseline(spread, placed, focus_area, question)
                                         \o <<"\n">> \o now,
                                     now)),
              cards |-> placed]

\* create_reading: the outcome of the call and the caller's list of
\* DrawnCards after it (the cards are mutated in place)
create_reading(spread, drawn, focus_area, question, now) ==
    IF CountMismatch(drawn, spread)
    THEN [ret |-> CountError(drawn, spread), cards |-> drawn]
    ELSE LET placed == AssignPositions(drawn, spread)
         IN  [ret |-> Return(Reading(spread.name, focus_area, question, placed, None,
                                     GenerateBaseline(spread, placed, focus_area, question),
                                     now)),
              cards |-> placed]

----------------------------------------------------------------------------
(* config.py, as far as ai.py and cli.py use it *)

Providers == {<<"claude">>, <<"ollama">>, <<"openai">>, <<"openrouter">>}

\* values of models.default_provider in the merged configuration
ConfiguredDefaults == {<<"claude">>, <<"ollama">>}

\* values of an API-key environment variable: unset, set but empty, set
ApiKeys == {None, <<>>, <<"sk-test">>}

\* get_api_key: the environment variable of the provider, None for a
\* provider without one
get_api_key(provider, env) ==
    IF provider = <<"claude">> THEN env.ANTHROPIC_API_KEY
    ELSE IF provider = <<"openai">> THEN env.OPENAI_API_KEY
    ELSE None

\* the attributes of Config
ConfigAttrs ==
    {"get", "get_model_config", "get_api_key", "get_data_path",
     "_system_config", "_user_config", "_merged_config"}

ConfigGetAttr(name) ==
    IF name \in ConfigAttrs
    THEN Return(name)
    ELSE Raise("AttributeError", <<"object has no attribute '", name, "'">>)

\* a value of a configuration: a scalar of type t written v, or a dict
Scalar(t, v) == [t |-> t, v |-> v]

Dict(d) == [t |-> "dict", d |-> d]

PyNone == [t |-> "NoneType"]

\* _load_system_defaults: the bundled default.yaml
SystemDefaults ==
    Dict([models |->
             Dict([default_provider |-> Scalar("str", "claude"),
                   providers |->
                       Dict([claude |->
                                Dict([temperature |-> Scalar("float", "0.7"),
                                      max_tokens |-> Scalar("int", "2000")])])]),
          output |-> Dict([save_readings |-> Scalar("bool", "False")])])

\* _load_user_config: no config.yaml, or one that overrides a leaf, a leaf
\* of a nested section, a section by a scalar, a leaf by a section, a leaf
\* by null, or that adds a section
UserConfigs ==
    {Dict(<<>>),
     Dict([output |-> Dict([save_readings |-> Scalar("bool", "True")])]),
     Dict([models |->
              Dict([providers |->
                       Dict([claude |->
                                Dict([temperature |-> Scalar("float", "0.2")])])])]),
     Dict([models |-> Scalar("str", "none")]),
     Dict([output |-> Dict([save_readings |-> Dict([when |-> Scalar("str", "always")])])]),
     Dict([output |-> Dict([save_readings |-> PyNone])]),
     Dict([display |-> Dict([show_imagery |-> Scalar("bool", "True")])])}

\* _merge_configs, lines 121-133
RECURSIVE deep_merge(_, _)
deep_merge(base, override) ==
    Dict([key \in DOMAIN base.d \cup DOMAIN override.d |->
             IF key \notin DOMAIN override.d THEN base.d[key]
             ELSE IF /\ key \in DOMAIN base.d
                     /\ base.d[key].t = "dict"
                     /\ override.d[key].t = "dict"
             THEN deep_merge(base.d[key], override.d[key])
             ELSE override.d[key]])

\* key_path arguments of get, each a str in pieces: keys and dots
KeyPaths ==
    {<<"models", ".", "default_provider">>,
     <<"models", ".", "providers", ".", "claude", ".", "temperature">>,
     <<"models", ".", "providers", ".", "claude", ".", "max_tokens">>,
     <<"models", ".", "default_provider", ".", "name">>,
     <<"output", ".", "save_readings">>,
     <<"output", ".", "save_readings", ".", "when">>,
     <<"output">>,
     <<"display", ".", "show_imagery">>,
     <<"nonexistent", ".", "key">>}

\* piece.upper()
UpperPiece(p) ==
    CASE p = "models" -> "MODELS"
      [] p = "default_provider" -> "DEFAULT_PROVIDER"
      [] p = "providers" -> "PROVIDERS"
      [] p = "claude" -> "CLAUDE"
      [] p = "temperature" -> "TEMPERATURE"
      [] p = "max_tokens" -> "MAX_TOKENS"
      [] p = "name" -> "NAME"
      [] p = "output" -> "OUTPUT"
      [] p = "save_readings" -> "SAVE_READINGS"
      [] p = "when" -> "WHEN"
      [] p = "display" -> "DISPLAY"
      [] p = "show_imagery" -> "SHOW_IMAGERY"
      [] p = "nonexistent" -> "NONEXISTENT"
      [] p = "key" -> "KEY"
      [] OTHER -> p

\* get, line 171: f"TAROTCLI_{key_path.upper().replace('.', '_')}"
EnvKey(key_path) ==
    <<"TAROTCLI_">>
        \o [i \in DOMAIN key_path |->
               IF UpperPiece(key_path[i]) = "." THEN "_" ELSE UpperPiece(key_path[i])]

\* the names of the environment variables of the model
EnvNames ==
    {<<"TAROTCLI_", "MODELS", "_", "DEFAULT_PROVIDER">>,
     <<"TAROTCLI_", "OUTPUT", "_", "SAVE_READINGS">>}

\* a variable of the environment: not set, or set to a str
Unset == [set |-> FALSE]

EnvValues == {"ollama", "TRUE", "off", "0.9", "2000", "v1.2", ""}

\* os.getenv(env_key)
Getenv(env, env_key) == IF env_key \in DOMAIN env THEN env[env_key] ELSE Unset

\* value.lower() of the values that occur
LowerValue(value) ==
    CASE value = "TRUE" -> "true"
      [] OTHER -> value

\* _parse_env_value, lines 207-221
parse_env_value(value) ==
    IF LowerValue(value) \in {"true", "yes", "1", "on"} THEN Scalar("bool", "True")
    ELSE IF LowerValue(value) \in {"false", "no", "0", "off"} THEN Scalar("bool", "False")
    ELSE IF value \in {"0.9", "v1.2"}
    THEN (IF value \in {"0.9"} THEN Scalar("float", value) ELSE Scalar("str", value))
    ELSE IF value \in {"2000"} THEN Scalar("int", value)
    ELSE Scalar("str", value)

\* key_path.split(".")
Split(key_path) ==
    LET IsKey(p) == p # "."
    IN  IF key_path = <<>> THEN <<"">> ELSE SelectSeq(key_path, IsKey)

\* get, lines 178-186: the walk down the keys from place i on
RECURSIVE Navigate(_, _, _, _)
Navigate(value, keys, i, default) ==
    IF i > Len(keys) THEN value
    ELSE IF value.t = "dict" /\ keys[i] \in DOMAIN value.d
    THEN Navigate(value.d[keys[i]], keys, i + 1, default)
    ELSE default

\* variant of config_get: the file configuration is asked first
config_get_file_first(merged, env, key_path, default) ==
    LET found == Navigate(merged, Split(key_path), 1, [t |-> "absent"])
    IN  IF found # [t |-> "absent"] THEN found
        ELSE IF Getenv(env, EnvKey(key_path)).set
        THEN parse_env_value(Getenv(env, EnvKey(key_path)).v)
        ELSE default

\* Config.get(key_path, default)
config_get(merged, env, key_path, default) ==
    LET env_value == Getenv(env, EnvKey(key_path))
    IN  IF env_value.set THEN parse_env_value(env_value.v)
        ELSE Navigate(merged, Split(key_path), 1, default)

\* Config(): the files are read and merged once
InitConfig ==
    /\ userConfig \in UserConfigs
    /\ mergedConfig = deep_merge(SystemDefaults, userConfig)
    /\ environ = [name \in EnvNames |-> Unset]
    /\ configRet = [op |-> "none"]

\* Config() where the user has no config.yaml
InitNoUserConfig == InitConfig /\ userConfig = Dict(<<>>)

\* no interpret_reading call and no clear-history run has begun
InitCmd ==
    /\ aiRun = NotCalled
    /\ clearRun = NotCalled

\* the environment changes: a variable is set or unset
SetEnv ==
    /\ \E name \in EnvNames, v \in {Unset} \cup {[set |-> TRUE, v |-> s] : s \in EnvValues} :
          /\ environ[name] # v
          /\ environ' = [environ EXCEPT ![name] = v]
    /\ configRet' = [op |-> "none"]
    /\ UNCHANGED <<userConfig, mergedConfig>>
    /\ UNCHANGED <<deckVars, spreadVars, readVars, loadVars, lookupVars, storeVars, cmdVars>>

\* config.get(key_path) and config.get(key_path, default)
ConfigGet ==
    /\ \E key_path \in KeyPaths, default \in {PyNone, Scalar("str", "fallback")} :
          configRet' = [op |-> "get", key_path |-> key_path, default |-> default,
                        value |-> config_get(mergedConfig, environ, key_path, default)]
    /\ UNCHANGED <<userConfig, mergedConfig, environ>>
    /\ UNCHANGED <<deckVars, spreadVars, readVars, loadVars, lookupVars, storeVars, cmdVars>>

----------------------------------------------------------------------------
(* ai.py *)

\* what the provider call (acompletion) can do: return a response whose
\* content is a text, an empty text or None; time out; raise another error
ProviderOutcomes ==
    {[kind |-> "content", content |-> <<"AI narrative">>],
     [kind |-> "content", content |-> <<>>],
     [kind |-> "content", content |-> None],
     [kind |-> "timeout", content |-> None],
     [kind |-> "error", content |-> None]}

\* lines 88: the API-key requirement
KeyMissing(provider, api_key) == ~Truthy(api_key) /\ provider # <<"ollama">>

\* lines 92, 111, 117, 121: the fallback expression
Fallback(reading) == GetAttr(reading, "static_interpretation")

\* lines 95-113: the body of the try
TryBody(reading, has_model, outcome) ==
    IF ~has_model THEN Raise("KeyError", <<"model">>)
    ELSE IF outcome.kind = "timeout" THEN Raise("TimeoutError", <<>>)
    ELSE IF outcome.kind = "error" THEN Raise("Exception", <<"API Error">>)
    ELSE IF outcome.content = None THEN Fallback(reading)
    ELSE Return(outcome.content)

\* interpret_reading(reading, provider, timeout).  default_provider is
\* config.get("models.default_provider", "claude"); has_model tells whether
\* the configuration of the resolved provider has a "model" entry; env
\* holds the API-key environment variables; outcome is what the provider
\* call does if it is reached.
interpret_reading(reading, provider, default_provider, has_model, env, outcome) ==
    LET resolved_provider == IF provider # None THEN provider ELSE default_provider
        api_key == get_api_key(resolved_provider, env)
        body == TryBody(reading, has_model, outcome)
    IN  IF KeyMissing(resolved_provider, api_key)
        THEN Fallback(reading)
        ELSE IF body.kind = "return" THEN body
        ELSE \* except asyncio.TimeoutError / except Exception: both handlers
             \* evaluate the fallback expression
             Fallback(reading)

\* whether the provider call is reached, and how the attempt ends
AttemptKind(provider, default_provider, has_model, env, outcome) ==
    LET resolved_provider == IF provider # None THEN provider ELSE default_provider
    IN  IF KeyMissing(resolved_provider, get_api_key(resolved_provider, env))
        THEN "no_api_key"
        ELSE IF ~has_model THEN "no_model"
        ELSE IF outcome.kind = "content"
        THEN (IF outcome.content = None THEN "none_content" ELSE "content")
        ELSE outcome.kind

\* interpret_reading_sync
interpret_reading_sync(reading, provider, default_provider, has_model, env, outcome) ==
    interpret_reading(reading, provider, default_provider, has_model, env, outcome)

----------------------------------------------------------------------------
(* ui.py: what display_reading prints, as a list of blocks *)

Block(tag, text) == [tag |-> tag, text |-> text]

\* the title of both displays
DisplayTitle(reading) ==
    Title(Replace(reading.spread_type, "_", " ")) \o <<" - ">>
        \o Title(Replace(reading.focus_area, "_", " "))

QuestionBlock(reading) ==
    IF Truthy(reading.question)
    THEN <<Block("question", reading.question)>>
    ELSE <<>>

CardLine(dc) ==
    Block("card", dc.position_meaning \o <<": ">> \o CardName(dc.card)
                      \o <<" (">> \o Orientation(dc) \o <<")">>)

ImageryBlocks(reading, show_imagery) ==
    IF show_imagery
    THEN [i \in DOMAIN reading.cards |->
             Block("imagery", CardDescription(reading.cards[i].card))]
    ELSE <<>>

\* _display_reading_plain: the blocks printed and how the call ends
display_reading_plain(reading, show_static, show_imagery) ==
    LET top == <<Block("title", DisplayTitle(reading))>>
                   \o QuestionBlock(reading)
                   \o [i \in DOMAIN reading.cards |-> CardLine(reading.cards[i])]
                   \o ImageryBlocks(reading, show_imagery)
                   \o <<Block("header", <<"## Interpretation">>)>>
        static == GetAttr(reading, "static_interpretation")
    IN  IF Truthy(reading.interpretation)
        THEN LET shown == top \o <<Block("interpretation", reading.interpretation)>>
             IN  IF ~show_static
                 THEN [ret |-> Return(None), out |-> shown]
                 ELSE IF static.kind = "raise"
                 THEN [ret |-> static,
                       out |-> shown \o <<Block("header", <<"## Static Interpretation">>)>>]
                 ELSE [ret |-> Return(None),
                       out |-> shown \o <<Block("header", <<"## Static Interpretation">>),
                                          Block("static", static.value)>>]
        ELSE IF static.kind = "raise"
        THEN [ret |-> static, out |-> top]
        ELSE [ret |-> Return(None), out |-> top \o <<Block("static", static.value)>>]

\* _display_reading_rich, lines 345-364: the cells of one table row
RichRow(dc, show_meaning_column, show_imagery) ==
    <<CardLine(dc)>>
        \o (IF show_meaning_column
            THEN <<Block("meaning", effective_meaning(dc))>> ELSE <<>>)
        \o (IF show_imagery
            THEN <<Block("imagery", CardDescription(dc.card))>> ELSE <<>>)

RECURSIVE Flatten(_)
Flatten(rows) == IF rows = <<>> THEN <<>> ELSE rows[1] \o Flatten(Tail(rows))

\* _display_reading_rich
display_reading_rich(reading, show_static, show_imagery) ==
    LET show_meaning_column == reading.interpretation = None \/ show_static
        table == Flatten([i \in DOMAIN reading.cards |->
                             RichRow(reading.cards[i], show_meaning_column, show_imagery)])
        panel == IF Truthy(reading.interpretation)
                 THEN <<Block("interpretation", reading.interpretation)>>
                 ELSE <<>>
    IN  [ret |-> Return(None),
         out |-> <<Block("title", DisplayTitle(reading))>>
                     \o QuestionBlock(reading) \o table \o panel]

\* display_reading
display_reading(reading, show_static, show_imagery, is_terminal) ==
    IF is_terminal
    THEN display_reading_rich(reading, show_static, show_imagery)
    ELSE display_reading_plain(reading, show_static, show_imagery)

\* print(reading.model_dump_json(indent=2)): every field of the Reading
dump_json(reading) ==
    [ret |-> Return(None),
     out |-> <<Block("json:spread_type", reading.spread_type),
               Block("json:focus_area", reading.focus_area),
               Block("json:question", reading.question)>>
                 \o [i \in DOMAIN reading.cards |-> CardLine(reading.cards[i])]
                 \o <<Block("json:interpretation", reading.interpretation),
                      Block("json:baseline_interpretation",
                            reading.baseline_interpretation),
                      Block("json:timestamp", reading.timestamp)>>]

----------------------------------------------------------------------------
(* State after TarotDeck(data_path) on a valid dataset *)

InitDeck ==
    /\ \E file \in DataFiles : cards = LoadCatalog(file)
    /\ remaining = cards
    /\ deckRet = Return(None)
    /\ lastOp = [op |-> "init", count |-> 0, before |-> <<>>, prev |-> "none"]
    /\ drawnSince = <<>>
    /\ cycles = 0
    /\ constructed = cards

\* the dataset of the specifications that do not depend on value_int
SampleFile == [i \in 1 .. DeckSize |-> Card(i, (DeckSize - i) % 2)]

InitSampleDeck ==
    /\ cards = LoadCatalog(SampleFile)
    /\ remaining = cards
    /\ deckRet = Return(None)
    /\ lastOp = [op |-> "init", count |-> 0, before |-> <<>>, prev |-> "none"]
    /\ drawnSince = <<>>
    /\ cycles = 0
    /\ constructed = cards

InitSpread ==
    /\ cardsArg = <<>>
    /\ spreadRet = NotCalled
    /\ spreadArgs = NotCalled
    /\ againRet = NotCalled
    /\ aiRet = NotCalled
    /\ aiArgs = NotCalled

InitRead ==
    /\ pc = "start"
    /\ rd = NotCalled
    /\ readRet = NotCalled
    /\ readOut = <<>>
    /\ readErr = <<>>

\* the deck was constructed from a file whose records are `cards`
InitLoaded ==
    /\ source = [exists |-> TRUE, lines |-> <<>>]
    /\ loadRet = Return(None)

InitLookup ==
    /\ lookupArg = <<>>
    /\ lookupSearch = <<>>
    /\ lookupRet = NotCalled

\* ReadingPersistence(path) on a path where no file is stored
InitStore ==
    /\ store = [exists |-> FALSE]
    /\ storeLog = <<>>
    /\ storeRet = [op |-> "none", n |-> 0, value |-> FALSE, before |-> store]

InitLib == InitLoaded /\ InitLookup /\ InitStore /\ InitNoUserConfig /\ InitCmd

\* TarotDeck.shuffle(seed)
Shuffle ==
    /\ remaining' \in ShuffleOutcomes(cards, remaining)
    /\ deckRet' = Return(None)
    /\ lastOp' = [op |-> "shuffle", count |-> 0, before |-> remaining, prev |-> lastOp.op]
    /\ drawnSince' = <<>>
    /\ cycles' = IF lastOp.op = "draw" /\ lastOp.prev = "shuffle"
                    /\ lastOp.count = DeckSize
                 THEN cycles ELSE 0
    /\ UNCHANGED <<cards, constructed, spreadVars, readVars, libVars>>

\* TarotDeck.draw(count)
Draw(count) ==
    /\ lastOp' = [op |-> "draw", count |-> count, before |-> remaining, prev |-> lastOp.op]
    /\ IF DrawTooMany(count, remaining)
       THEN /\ deckRet' = DrawError(count, remaining)
            /\ cycles' = 0
            /\ UNCHANGED <<remaining, drawnSince>>
       ELSE \E flags \in [1 .. RangeLen(count) -> BOOLEAN] :
              /\ deckRet' = Return(DrawnList(remaining, count, flags))
              /\ remaining' = RemainingAfterDraw(remaining, count)
              /\ drawnSince' = drawnSince \o
                     [i \in 1 .. RangeLen(count) |-> deckRet'.value[i].card]
              /\ cycles' = IF lastOp.op = "shuffle" /\ count = DeckSize
                           THEN Min(cycles + 1, MaxCycles) ELSE 0
    /\ UNCHANGED <<cards, constructed, spreadVars, readVars, libVars>>

\* TarotDeck.reset()
Reset ==
    /\ remaining' = ResetOutcome(cards, remaining)
    /\ deckRet' = Return(None)
    /\ lastOp' = [op |-> "reset", count |-> 0, before |-> remaining, prev |-> lastOp.op]
    /\ drawnSince' = <<>>
    /\ cycles' = 0
    /\ UNCHANGED <<cards, constructed, spreadVars, readVars, libVars>>

DrawAny == \E count \in Counts : Draw(count)

Init == InitDeck /\ InitSpread /\ InitRead /\ InitLib

Next == Shuffle \/ DrawAny \/ Reset

\* The deck under every sequence of shuffle, draw and reset calls
Spec == Init /\ [][Next]_vars

----------------------------------------------------------------------------
(* create_reading on arguments drawn from bounded sets, followed either by *)
(* interpret_reading on the Reading it returned or by a second             *)
(* create_reading call on the same arguments at another time.              *)

\* the lists draw() can return from a shuffled deck
Hands ==
    {DrawnList(order, n, flags) :
        order \in ShuffleOutcomes(cards, cards),
        n \in 0 .. DeckSize,
        flags \in [1 .. DeckSize -> BOOLEAN]}

\* SpreadLayout.create_reading(cards, focus_area, question)
CreateReading ==
    /\ spreadRet = NotCalled
    /\ \E key \in SpreadKeys, hand \in Hands, focus_area \in FocusAreas,
          question \in Questions, now \in Timestamps :
          LET r == create_reading(SPREADS[key], hand, focus_area, question, now)
          IN  /\ spreadRet' = r.ret
              /\ cardsArg' = r.cards
              /\ spreadArgs' = [kind |-> "called", spread |-> SPREADS[key],
                                cards |-> hand, focus_area |-> focus_area,
                                question |-> question, now |-> now]
    /\ UNCHANGED <<deckVars, againRet, aiRet, aiArgs, readVars, libVars>>

\* a second create_reading call on the same spread with the same cards
\* (the list as it was given or as the first call left it), focus area and
\* question, at any time
CreateReadingAgain ==
    /\ spreadRet.kind = "return"
    /\ againRet = NotCalled
    /\ aiRet = NotCalled
    /\ \E hand \in {spreadArgs.cards, cardsArg}, now \in Timestamps :
          LET r == create_reading(spreadArgs.spread, hand, spreadArgs.focus_area,
                                  spreadArgs.question, now)
          IN  /\ againRet' = r.ret
              /\ cardsArg' = r.cards
    /\ UNCHANGED <<deckVars, spreadRet, spreadArgs, aiRet, aiArgs, readVars, libVars>>

\* interpret_reading(reading, provider)
InterpretReading ==
    /\ spreadRet.kind = "return"
    /\ againRet = NotCalled
    /\ aiRet = NotCalled
    /\ \E provider \in Providers \cup {None},
          default_provider \in ConfiguredDefaults,
          has_model \in BOOLEAN,
          env \in [ANTHROPIC_API_KEY : ApiKeys, OPENAI_API_KEY : ApiKeys],
          outcome \in ProviderOutcomes :
          /\ aiRet' = interpret_reading(spreadRet.value, provider, default_provider,
                                        has_model, env, outcome)
          /\ aiArgs' = [kind |-> "called",
                        given |-> provider # None,
                        attempt |-> AttemptKind(provider, default_provider,
                                                has_model, env, outcome)]
    /\ UNCHANGED <<deckVars, cardsArg, spreadRet, spreadArgs, againRet, readVars, libVars>>

InitReading == InitSampleDeck /\ InitSpread /\ InitRead /\ InitLib

NextReading == CreateReading \/ CreateReadingAgain \/ InterpretReading

SpecReading == InitReading /\ [][NextReading]_vars

----------------------------------------------------------------------------
(* deck.py: TarotDeck(data_path) on any source file.  A line of the file   *)
(* is described by what json.loads makes of it: not JSON, a JSON value     *)
(* that is not an object, or an object, given by the fields it holds.      *)
(* The text fields of a record (name, value, the meanings, description)    *)
(* stand and fall with its id.                                             *)

\* what a line of a source file can hold
LineTemplates ==
    {"major", "minor", "major-suited", "minor-unsuited", "copy-of-first",
     "not-json", "not-object", "bad-type", "incomplete"}

\* the object of line k with the given type and suit
RecordLine(id, k, type, suit) ==
    [json |-> "object",
     data |-> [id |-> id, type |-> type, suit |-> suit, value_int |-> k % 2]]

\* line k of a source file, by template
SourceLine(k, t) ==
    CASE t = "major" -> RecordLine(k, k, "major", None)
      [] t = "minor" -> RecordLine(k, k, "minor", <<"wands">>)
      [] t = "major-suited" -> RecordLine(k, k, "major", <<"wands">>)
      [] t = "minor-unsuited" -> RecordLine(k, k, "minor", None)
      [] t = "copy-of-first" -> RecordLine(1, k, "major", None)
      [] t = "not-json" -> [json |-> "invalid"]
      [] t = "not-object" -> [json |-> "array"]
      [] t = "bad-type" -> RecordLine(k, k, "trump", None)
      [] t = "incomplete" -> [json |-> "object", data |-> [id |-> k]]

\* the files at data_path: none, or up to DeckSize + 1 lines
SourceFiles ==
    {[exists |-> FALSE]}
        \cup {[exists |-> TRUE,
                 lines |-> [k \in DOMAIN ts |-> SourceLine(k, ts[k])]] :
                 ts \in UNION {[1 .. m -> LineTemplates] : m \in 0 .. (DeckSize + 1)}}

\* json.loads(line)
JsonLoads(line) ==
    IF line.json = "invalid"
    THEN Raise("JSONDecodeError", <<"Expecting value">>)
    ELSE Return(line)

\* Card(**card_data): pydantic validates the fields of models.py:37-74
CardInit(loaded) ==
    IF loaded.json # "object"
    THEN Raise("TypeError", <<"argument after ** must be a mapping">>)
    ELSE IF ~({"id", "type", "value_int"} \subseteq DOMAIN loaded.data)
    THEN Raise("ValidationError", <<"Field required">>)
    ELSE IF loaded.data.type \notin {"major", "minor"}
    THEN Raise("ValidationError", <<"Input should be 'major' or 'minor'">>)
    ELSE Return([id |-> loaded.data.id,
                 value_int |-> loaded.data.value_int,
                 type |-> loaded.data.type,
                 suit |-> IF "suit" \in DOMAIN loaded.data
                          THEN loaded.data.suit ELSE None])

\* variant of JsonErrorAt: the line is counted from 0
JsonErrorAtZeroBased(line_num, e) ==
    Raise("ValueError",
          <<"Invalid JSON at line ">> \o Str(line_num - 1) \o <<": ">> \o e.msg)

\* __init__, lines 115-116: the handler of json.JSONDecodeError
JsonErrorAt(line_num, e) ==
    Raise("ValueError",
          <<"Invalid JSON at line ">> \o Str(line_num) \o <<": ">> \o e.msg)

\* __init__, lines 109-116: the loop over the lines from line_num on, with
\* the cards appended so far
RECURSIVE ReadLines(_, _, _)
ReadLines(lines, line_num, sofar) ==
    IF line_num > Len(lines) THEN Return(sofar)
    ELSE LET card_data == JsonLoads(lines[line_num])
         IN  IF card_data.kind = "raise"
             THEN JsonErrorAt(line_num, card_data)
             ELSE LET card == CardInit(card_data.value)
                  IN  IF card.kind = "raise" THEN card
                      ELSE ReadLines(lines, line_num + 1, Append(sofar, card.value))

\* variant of WrongCount: only a short file is refused
WrongCountFewer(loaded) == Len(loaded) < DeckSize

\* __init__, line 118
WrongCount(loaded) == Len(loaded) # DeckSize

\* __init__: the exception raised, or self.cards
TarotDeckInit(file) ==
    IF ~file.exists
    THEN Raise("FileNotFoundError", <<"Card data not found at data_path">>)
    ELSE LET loaded == ReadLines(file.lines, 1, <<>>)
         IN  IF loaded.kind = "raise" THEN loaded
             ELSE IF WrongCount(loaded.value)
             THEN Raise("ValueError",
                        <<"Expected ">> \o Str(DeckSize) \o <<" cards, found ">>
                            \o Str(Len(loaded.value)))
             ELSE Return(SortByValueInt(loaded.value))

\* before TarotDeck(data_path): no deck, any file
InitUnloaded ==
    /\ source \in SourceFiles
    /\ loadRet = NotCalled
    /\ cards = <<>>
    /\ remaining = <<>>
    /\ deckRet = NotCalled
    /\ lastOp = [op |-> "none", count |-> 0, before |-> <<>>, prev |-> "none"]
    /\ drawnSince = <<>>
    /\ cycles = 0
    /\ constructed = <<>>

\* TarotDeck(data_path)
Load ==
    /\ loadRet = NotCalled
    /\ loadRet' = TarotDeckInit(source)
    /\ IF loadRet'.kind = "return"
       THEN /\ cards' = loadRet'.value
            /\ remaining' = cards'
            /\ constructed' = cards'
            /\ deckRet' = Return(None)
            /\ lastOp' = [op |-> "init", count |-> 0, before |-> <<>>, prev |-> "none"]
       ELSE UNCHANGED <<cards, remaining, constructed, deckRet, lastOp>>
    /\ UNCHANGED <<source, drawnSince, cycles, spreadVars, readVars, lookupVars, storeVars>>
    /\ UNCHANGED <<configVars, cmdVars>>

InitLoad ==
    /\ InitUnloaded /\ InitSpread /\ InitRead /\ InitLookup /\ InitStore
    /\ InitNoUserConfig /\ InitCmd

SpecLoad == InitLoad /\ [][Load]_vars

----------------------------------------------------------------------------
(* deck.py: lookup_card.  Here a str is the sequence of its characters,    *)
(* so that lower(), `in` and replace() are what they are in Python.        *)

\* ch.lower() of the characters that occur
LowerChar(ch) ==
    CASE ch = "A" -> "a"
      [] ch = "C" -> "c"
      [] ch = "E" -> "e"
      [] ch = "P" -> "p"
      [] ch = "S" -> "s"
      [] ch = "T" -> "t"
      [] ch = "W" -> "w"
      [] ch = "U" -> "u"
      [] ch = "N" -> "n"
      [] OTHER -> ch

\* s.lower()
Lower(s) == [i \in DOMAIN s |-> LowerChar(s[i])]

\* sub in s
Contains(sub, s) ==
    \E i \in 0 .. (Len(s) - Len(sub)) : SubSeq(s, i + 1, i + Len(sub)) = sub

\* s.replace(old, new) for a non-empty old: every occurrence, left to right
RECURSIVE StrReplace(_, _, _)
StrReplace(s, old, new) ==
    IF Len(s) < Len(old) THEN s
    ELSE IF SubSeq(s, 1, Len(old)) = old
    THEN new \o StrReplace(SubSeq(s, Len(old) + 1, Len(s)), old, new)
    ELSE <<s[1]>> \o StrReplace(Tail(s), old, new)

\* names of dataset records
AceOfPentacles ==
    <<"A", "c", "e", " ", "o", "f", " ", "P", "e", "n", "t", "a", "c", "l", "e", "s">>

TwoOfPentacles ==
    <<"T", "w", "o", " ", "o", "f", " ", "P", "e", "n", "t", "a", "c", "l", "e", "s">>

NamePool ==
    {AceOfPentacles,
     TwoOfPentacles,
     <<"A", "c", "e", " ", "o", "f", " ", "W", "a", "n", "d", "s">>,
     <<"T", "h", "e", " ", "S", "u", "n">>,
     <<"S", "u", "n">>}

\* the words search terms are made of
SearchWords ==
    {<<"a", "c", "e">>,
     <<"t", "w", "o">>,
     <<"o", "f">>,
     <<"t", "h", "e">>,
     <<"s", "u", "n">>,
     <<"p", "e", "n", "t", "s">>,
     <<"c", "o", "i", "n", "s">>,
     <<"p", "e", "n", "t", "a", "c", "l", "e", "s">>,
     <<"A", "C", "E">>,
     <<"S", "U", "N">>}

\* the search terms: up to three words, separated by blanks
SearchTerms ==
    {Join(ws, <<" ">>) : ws \in UNION {[1 .. m -> SearchWords] : m \in 0 .. 3}}

\* the datasets lookup_card is tried on: DeckSize records with names of
\* their own
NamedFiles ==
    {[i \in 1 .. DeckSize |-> [id |-> i, value_int |-> i % 2, name |-> nm[i]]] :
        nm \in {f \in [1 .. DeckSize -> NamePool] :
                   \A i, j \in 1 .. DeckSize : f[i] = f[j] => i = j}}

\* lookup_card, lines 246-249
aliases ==
    <<[alias |-> <<"p", "e", "n", "t", "s">>,
       full |-> <<"p", "e", "n", "t", "a", "c", "l", "e", "s">>],
      [alias |-> <<"c", "o", "i", "n", "s">>,
       full |-> <<"p", "e", "n", "t", "a", "c", "l", "e", "s">>]>>

\* variant of AliasApplies: an alias is expanded wherever it occurs
AliasAppliesAlways(a, search_lower) == Contains(a.alias, search_lower)

\* lookup_card, line 254
AliasApplies(a, search_lower) ==
    Contains(a.alias, search_lower) /\ ~Contains(a.full, search_lower)

\* lookup_card, lines 253-255: the loop over aliases[k..]
RECURSIVE ExpandAliases(_, _)
ExpandAliases(search_lower, k) ==
    IF k > Len(aliases) THEN search_lower
    ELSE IF AliasApplies(aliases[k], search_lower)
    THEN ExpandAliases(StrReplace(search_lower, aliases[k].alias, aliases[k].full),
                       k + 1)
    ELSE ExpandAliases(search_lower, k + 1)

\* lookup_card, lines 251-255
SearchLower(search_term) == ExpandAliases(Lower(search_term), 1)

\* lookup_card, line 257
Matches(catalog, search_lower) ==
    SelectSeq(catalog, LAMBDA c : Contains(search_lower, Lower(c.name)))

\* variant of ExactMatches: the exact match is not looked for
NoExactMatches(matches, search_lower) == <<>>

\* lookup_card, line 265
ExactMatches(matches, search_lower) ==
    SelectSeq(matches, LAMBDA c : Lower(c.name) = search_lower)

\* lookup_card: the Card | list[Card] | None it returns
lookup_card(catalog, search_term) ==
    LET search_lower == SearchLower(search_term)
        matches == Matches(catalog, search_lower)
        exact == ExactMatches(matches, search_lower)
    IN  IF Len(matches) = 0 THEN [is |-> "None"]
        ELSE IF Len(matches) = 1 THEN [is |-> "Card", card |-> matches[1]]
        ELSE IF exact # <<>> THEN [is |-> "Card", card |-> exact[1]]
        ELSE [is |-> "list", cards |-> matches]

\* a deck constructed from a dataset of NamedFiles
InitNamedDeck ==
    /\ \E file \in NamedFiles : cards = LoadCatalog(file)
    /\ remaining = cards
    /\ deckRet = Return(None)
    /\ lastOp = [op |-> "init", count |-> 0, before |-> <<>>, prev |-> "none"]
    /\ drawnSince = <<>>
    /\ cycles = 0
    /\ constructed = cards

\* lookup_card(deck, search_term)
Lookup ==
    /\ lookupRet = NotCalled
    /\ \E search_term \in SearchTerms :
          /\ lookupArg' = search_term
          /\ lookupSearch' = SearchLower(search_term)
          /\ lookupRet' = Return(lookup_card(cards, search_term))
    /\ UNCHANGED <<deckVars, spreadVars, readVars, loadVars, storeVars, configVars, cmdVars>>

InitLookupDeck == InitNamedDeck /\ InitSpread /\ InitRead /\ InitLib

SpecLookup == InitLookupDeck /\ [][Lookup]_vars

----------------------------------------------------------------------------
(* JSON text, as persistence.py writes and reads it.  A text is the        *)
(* sequence of its pieces: the structural characters, the literals null,   *)
(* true and false, the digits of a number, a quotation mark at either end  *)
(* of a string, and between them the pieces of the string, escaped.  A     *)
(* line break in a file is the piece "\n".                                 *)

\* the escape of one piece of a str inside a JSON string
EscapePiece(p) ==
    CASE p = "\n" -> "\\n"
      [] p = "\n**Question**: " -> "\\n**Question**: "
      [] p = ")\n" -> ")\\n"
      [] p = "\"" -> "\\\""
      [] OTHER -> p

\* what a piece of a JSON string stands for
UnescapePiece(p) ==
    CASE p = "\\n" -> "\n"
      [] p = "\\n**Question**: " -> "\n**Question**: "
      [] p = ")\\n" -> ")\n"
      [] p = "\\\"" -> "\""
      [] OTHER -> p

\* variant of JsonStr: the pieces are written as they are
JsonStrRaw(str) == <<"\"">> \o str \o <<"\"">>

\* a str as JSON text
JsonStr(str) == <<"\"">> \o [i \in DOMAIN str |-> EscapePiece(str[i])] \o <<"\"">>

\* a str | None as JSON text
JsonOptStr(x) == IF x = None THEN <<"null">> ELSE JsonStr(x)

JsonBool(b) == IF b THEN <<"true">> ELSE <<"false">>

JsonInt(n) == <<ToString(n)>>

\* "key":
JsonKey(k) == <<"\"", k, "\"", ":">>

\* Card.model_dump_json(): the fields the model stores
JsonCard(c) ==
    <<"{">> \o JsonKey("id") \o JsonInt(c.id) \o <<",">>
        \o JsonKey("value_int") \o JsonInt(c.value_int) \o <<"}">>

\* DrawnCard.model_dump_json()
JsonDrawnCard(dc) ==
    <<"{">> \o JsonKey("card") \o JsonCard(dc.card) \o <<",">>
        \o JsonKey("reversed") \o JsonBool(dc.reversed) \o <<",">>
        \o JsonKey("position") \o JsonInt(dc.position) \o <<",">>
        \o JsonKey("position_meaning") \o JsonStr(dc.position_meaning) \o <<"}">>

\* Reading.model_dump_json(): one line, fields in declaration order
model_dump_json(reading) ==
    <<"{">> \o JsonKey("spread_type") \o JsonStr(reading.spread_type) \o <<",">>
        \o JsonKey("focus_area") \o JsonStr(reading.focus_area) \o <<",">>
        \o JsonKey("question") \o JsonOptStr(reading.question) \o <<",">>
        \o JsonKey("cards") \o <<"[">>
        \o Join([i \in DOMAIN reading.cards |-> JsonDrawnCard(reading.cards[i])],
                <<",">>)
        \o <<"]", ",">>
        \o JsonKey("interpretation") \o JsonOptStr(reading.interpretation) \o <<",">>
        \o JsonKey("baseline_interpretation")
        \o JsonStr(reading.baseline_interpretation) \o <<",">>
        \o JsonKey("timestamp") \o JsonStr(reading.timestamp) \o <<"}">>

\* the piece at place i of the text t, if there is one
At(t, i) == IF i \in DOMAIN t THEN t[i] ELSE "<end>"

\* a parse that failed; one that produced val and stopped before place next
NoParse == [ok |-> FALSE]

Parsed(val, next) == [ok |-> TRUE, val |-> val, next |-> next]

\* the numbers the stored readings hold
IsNumber(p) == \E n \in 0 .. (DeckSize + 1) : ToString(n) = p

NumberOf(p) == CHOOSE n \in 0 .. (DeckSize + 1) : ToString(n) = p

\* a JSON string starting at place i
ParseString(t, i) ==
    IF At(t, i) # "\"" \/ ~\E j \in (i + 1) .. Len(t) : t[j] = "\""
    THEN NoParse
    ELSE LET close == CHOOSE j \in (i + 1) .. Len(t) :
                         /\ t[j] = "\""
                         /\ \A k \in (i + 1) .. (j - 1) : t[k] # "\""
         IN  Parsed([t |-> "str",
                     v |-> [k \in 1 .. (close - i - 1) |-> UnescapePiece(t[i + k])]],
                    close + 1)

\* json.loads: the value starting at place i of the text t
RECURSIVE ParseValue(_, _)
RECURSIVE ParseElements(_, _, _)
RECURSIVE ParseMembers(_, _, _, _)
ParseValue(t, i) ==
    LET p == At(t, i)
    IN  CASE p = "null" -> Parsed([t |-> "null"], i + 1)
          [] p = "true" -> Parsed([t |-> "bool", v |-> TRUE], i + 1)
          [] p = "false" -> Parsed([t |-> "bool", v |-> FALSE], i + 1)
          [] p = "\"" -> ParseString(t, i)
          [] p = "[" -> IF At(t, i + 1) = "]"
                        THEN Parsed([t |-> "list", v |-> <<>>], i + 2)
                        ELSE ParseElements(t, i + 1, <<>>)
          [] p = "{" -> IF At(t, i + 1) = "}"
                        THEN Parsed([t |-> "dict", keys |-> <<>>, vals |-> <<>>], i + 2)
                        ELSE ParseMembers(t, i + 1, <<>>, <<>>)
          [] OTHER -> IF IsNumber(p)
                      THEN Parsed([t |-> "int", v |-> NumberOf(p)], i + 1)
                      ELSE NoParse

\* the elements of an array from place i on, after the elements `sofar`
ParseElements(t, i, sofar) ==
    LET e == ParseValue(t, i)
    IN  IF ~e.ok THEN NoParse
        ELSE IF At(t, e.next) = ","
        THEN ParseElements(t, e.next + 1, Append(sofar, e.val))
        ELSE IF At(t, e.next) = "]"
        THEN Parsed([t |-> "list", v |-> Append(sofar, e.val)], e.next + 1)
        ELSE NoParse

\* the members of an object from place i on
ParseMembers(t, i, keys, vals) ==
    LET k == ParseString(t, i)
    IN  IF ~k.ok \/ At(t, k.next) # ":" THEN NoParse
        ELSE LET e == ParseValue(t, k.next + 1)
             IN  IF ~e.ok THEN NoParse
                 ELSE IF At(t, e.next) = ","
                 THEN ParseMembers(t, e.next + 1, Append(keys, k.val.v),
                                   Append(vals, e.val))
                 ELSE IF At(t, e.next) = "}"
                 THEN Parsed([t |-> "dict", keys |-> Append(keys, k.val.v),
                              vals |-> Append(vals, e.val)],
                             e.next + 1)
                 ELSE NoParse

\* json.loads(line): the whole line is one value
json_loads(line) ==
    LET v == ParseValue(line, 1)
    IN  IF v.ok /\ v.next = Len(line) + 1
        THEN Return(v.val)
        ELSE Raise("JSONDecodeError", <<"Expecting value">>)

----------------------------------------------------------------------------
(* persistence.py *)

\* data.get(key) of a parsed object: the last member of that name
Member(d, key) ==
    LET places == {i \in DOMAIN d.keys : d.keys[i] = <<key>>}
    IN  IF places = {} THEN [t |-> "missing"]
        ELSE d.vals[CHOOSE i \in places : \A j \in places : j <= i]

\* a field declared str | None with default None
IsOptStr(v) == v.t \in {"str", "null", "missing"}

OptStrOf(v) == IF v.t = "str" THEN v.v ELSE None

\* Card.model_validate
IsCard(v) ==
    /\ v.t = "dict"
    /\ Member(v, "id").t = "int"
    /\ Member(v, "value_int").t = "int"

\* DrawnCard.model_validate
IsDrawnCard(v) ==
    /\ v.t = "dict"
    /\ IsCard(Member(v, "card"))
    /\ Member(v, "reversed").t = "bool"
    /\ Member(v, "position").t = "int"
    /\ Member(v, "position_meaning").t \in {"str", "missing"}

DrawnCardOf(v) ==
    [card |-> Card(Member(Member(v, "card"), "id").v,
                   Member(Member(v, "card"), "value_int").v),
     reversed |-> Member(v, "reversed").v,
     position |-> Member(v, "position").v,
     position_meaning |-> IF Member(v, "position_meaning").t = "str"
                          THEN Member(v, "position_meaning").v ELSE <<>>]

\* Reading.model_validate(data): the fields of models.py:107-115
IsReading(v) ==
    /\ v.t = "dict"
    /\ Member(v, "spread_type").t = "str"
    /\ Member(v, "focus_area").t = "str"
    /\ Member(v, "focus_area").v \in FocusAreas
    /\ IsOptStr(Member(v, "question"))
    /\ Member(v, "cards").t = "list"
    /\ \A i \in DOMAIN Member(v, "cards").v : IsDrawnCard(Member(v, "cards").v[i])
    /\ IsOptStr(Member(v, "interpretation"))
    /\ Member(v, "baseline_interpretation").t = "str"
    /\ Member(v, "timestamp").t = "str"

model_validate(v) ==
    IF ~IsReading(v) THEN Raise("ValidationError", <<"validation error for Reading">>)
    ELSE Return(Reading(Member(v, "spread_type").v,
                        Member(v, "focus_area").v,
                        OptStrOf(Member(v, "question")),
                        [i \in DOMAIN Member(v, "cards").v |->
                            DrawnCardOf(Member(v, "cards").v[i])],
                        OptStrOf(Member(v, "interpretation")),
                        Member(v, "baseline_interpretation").v,
                        Member(v, "timestamp").v))

\* the lines of a text file, without their line breaks
RECURSIVE SplitLines(_)
SplitLines(text) ==
    IF text = <<>> THEN <<>>
    ELSE IF \E i \in DOMAIN text : text[i] = "\n"
    THEN LET brk == CHOOSE i \in DOMAIN text :
                       text[i] = "\n" /\ \A j \in 1 .. (i - 1) : text[j] # "\n"
         IN  <<SubSeq(text, 1, brk - 1)>>
                 \o SplitLines(SubSeq(text, brk + 1, Len(text)))
    ELSE <<text>>

IsSpace(p) == p \in {" ", "\t", "\r"}

\* line.strip()
RECURSIVE Strip(_)
Strip(line) ==
    IF line = <<>> THEN line
    ELSE IF IsSpace(line[1]) THEN Strip(Tail(line))
    ELSE IF IsSpace(line[Len(line)]) THEN Strip(SubSeq(line, 1, Len(line) - 1))
    ELSE line

\* load_all, lines 105-119: the loop over the lines from place k on
RECURSIVE LoadLines(_, _, _)
LoadLines(lines, k, readings) ==
    IF k > Len(lines) THEN readings
    ELSE LET line == Strip(lines[k])
             data == json_loads(line)
             reading == model_validate(data.value)
         IN  IF line = <<>> THEN LoadLines(lines, k + 1, readings)
             ELSE IF data.kind = "raise" THEN LoadLines(lines, k + 1, readings)
             ELSE IF reading.kind = "raise" THEN LoadLines(lines, k + 1, readings)
             ELSE LoadLines(lines, k + 1, Append(readings, reading.value))

\* the first bytes of a character of more than one byte, left in the file by
\* a write that stopped inside the character
BrokenChar == "\\xc3"

\* open(path, "r", encoding="utf-8") and the iteration over its lines raise
\* UnicodeDecodeError on bytes that are not UTF-8
Undecodable(text) == \E i \in DOMAIN text : text[i] = BrokenChar

\* ReadingPersistence.load_all: an exception outside the try of lines
\* 111-118 is caught at line 120 and the readings collected so far are dropped
load_all(file) ==
    IF ~file.exists THEN <<>>
    ELSE IF Undecodable(file.text) THEN <<>>
    ELSE LoadLines(SplitLines(file.text), 1, <<>>)

\* the text of the file, "" if there is none: open(path, "a") creates it
TextOf(file) == IF file.exists THEN file.text ELSE <<>>

\* save, lines 72-78: the file after a write that went through
SavedFile(file, reading) ==
    [exists |-> TRUE, text |-> TextOf(file) \o model_dump_json(reading) \o <<"\n">>]

\* save, line 76: the file after a write that failed half way
CutFile(file, reading) ==
    [exists |-> TRUE,
     text |-> TextOf(file)
                 \o SubSeq(model_dump_json(reading), 1,
                           Len(model_dump_json(reading)) \div 2)]

\* the Reading of `read` on the spread `key`, as it is when it is saved
ReadingToSave(key, flags, focus_area, question, interpretation, now) ==
    LET spread == SPREADS[key]
        hand == DrawnList(LoadCatalog(SampleFile), card_count(spread), flags)
        made == create_reading(spread, hand, focus_area, question, now).ret.value
    IN  [made EXCEPT !.interpretation = interpretation]

\* the readings given to save
StoredReadings ==
    {ReadingToSave(<<"single">>, <<FALSE>>, <<"general">>, None, None,
                   <<"2025-11-04T14:30:00+00:00">>),
     ReadingToSave(<<"three">>, <<TRUE, FALSE, TRUE>>, <<"personal", "_", "growth">>,
                   <<"Is ", "\"", "now", "\"", " the time?">>, None,
                   <<"2025-11-05T09:00:00+00:00">>),
     ReadingToSave(<<"single">>, <<TRUE>>, <<"career">>, <<"Should I freelance?">>,
                   <<"The card speaks of change.", "\n", "Trust it.">>,
                   <<"2025-11-05T09:00:00+00:00">>),
     ReadingToSave(<<"three">>, <<FALSE, FALSE, TRUE>>, <<"career">>, <<>>,
                   <<"A turn for the better.">>,
                   <<"2025-11-06T21:15:00+00:00">>)}

\* ReadingPersistence.save(reading): the write goes through, or mkdir or
\* open raises, or the write raises half way
Save ==
    /\ Len(storeLog) < MaxSaves
    /\ \E reading \in StoredReadings, went \in {"written", "refused", "cut"} :
          /\ store' = CASE went = "written" -> SavedFile(store, reading)
                        [] went = "refused" -> store
                        [] went = "cut" -> CutFile(store, reading)
          /\ storeLog' = Append(storeLog, [reading |-> reading,
                                           ok |-> went = "written",
                                           line |-> <<>>])
          /\ storeRet' = [op |-> "save", n |-> 0, value |-> went = "written",
                          before |-> store]
    /\ UNCHANGED <<deckVars, spreadVars, readVars, loadVars, lookupVars, configVars, cmdVars>>

\* ReadingPersistence.load_all()
LoadAll ==
    /\ storeRet' = [op |-> "load_all", n |-> 0, value |-> load_all(store),
                    before |-> store]
    /\ UNCHANGED <<store, storeLog>>
    /\ UNCHANGED <<deckVars, spreadVars, readVars, loadVars, lookupVars, configVars, cmdVars>>

InitPersistence == InitSampleDeck /\ InitSpread /\ InitRead /\ InitLib

NextStore == Save \/ LoadAll

SpecStore == InitPersistence /\ [][NextStore]_vars

----------------------------------------------------------------------------
(* persistence.py: the calls that read and cut a store found on disk *)

\* the first half of a record: what a write that stopped half way leaves
CutRecord(reading) ==
    SubSeq(model_dump_json(reading), 1, Len(model_dump_json(reading)) \div 2)

\* lines a store can hold that save did not write whole: a line of blanks,
\* a record cut half way, a JSON object that is not a Reading, a record cut
\* inside a character
ForeignLines ==
    {<<" ", " ", " ">>}
        \cup {CutRecord(r) : r \in {s \in StoredReadings : s.question = <<>>}}
        \cup {<<"{", "\"", "incomplete", "\"", ":", "\"", "object", "\"", "}">>,
              <<"{", "\"", "question", "\"", ":", "\"", "caf", BrokenChar>>}

\* the readings of the records a store found on disk holds
HistoryReadings == {r \in StoredReadings : r.question \in {None, <<>>}}

\* how each line of a store came to be there: written whole by save(reading),
\* or otherwise
LineWrites ==
    [reading : HistoryReadings, ok : {TRUE}, line : {<<>>}]
        \cup [reading : {None}, ok : {FALSE}, line : ForeignLines]

\* the line a write left
LineOf(w) == IF w.ok THEN model_dump_json(w.reading) ELSE w.line

\* the file holding the lines of the writes `log`, each ended by a line break
FileOf(log) ==
    [exists |-> TRUE,
     text |-> Join([i \in DOMAIN log |-> LineOf(log[i]) \o <<"\n">>], <<>>)]

\* a store found on disk: no file, or a file of up to MaxLines lines
InitHistoryStore ==
    /\ storeLog \in UNION {[1 .. k -> LineWrites] : k \in 0 .. MaxLines}
    /\ store \in {FileOf(storeLog)}
                 \cup (IF storeLog = <<>> THEN {[exists |-> FALSE]} ELSE {})
    /\ storeRet = [op |-> "none", n |-> 0, value |-> FALSE, before |-> store]

\* the index a slice bound i stands for in a list of length len
SliceIndex(i, len) ==
    IF i < 0 THEN (IF len + i < 0 THEN 0 ELSE len + i)
    ELSE IF i > len THEN len ELSE i

\* s[i:]
SliceFrom(s, i) == SubSeq(s, SliceIndex(i, Len(s)) + 1, Len(s))

\* s[:j]
SliceTo(s, j) == SubSeq(s, 1, SliceIndex(j, Len(s)))

\* ReadingPersistence.load_last(n), line 145, on the all_readings of line 144
load_last(all_readings, n) ==
    IF all_readings # <<>> THEN SliceFrom(all_readings, 0 - n) ELSE <<>>

\* delete_last, line 172
readings_to_keep(all_readings, n) ==
    IF n < Len(all_readings) THEN SliceTo(all_readings, 0 - n) ELSE <<>>

\* delete_last, lines 177-179: the file rewritten with the readings `keep`
RewrittenFile(keep) ==
    [exists |-> TRUE,
     text |-> Join([i \in DOMAIN keep |-> model_dump_json(keep[i]) \o <<"\n">>], <<>>)]

\* ReadingPersistence.delete_last(n) on the all_readings of line 165: the
\* file and the result when opening, writing and unlinking do what `went` says
delete_last(file, all_readings, n, went) ==
    LET keep == readings_to_keep(all_readings, n)
    IN  IF all_readings = <<>> THEN [file |-> file, value |-> TRUE]
        ELSE IF went = "refused" THEN [file |-> file, value |-> FALSE]
        ELSE IF keep = <<>> THEN [file |-> [exists |-> FALSE], value |-> TRUE]
        ELSE IF went = "cut"
        THEN [file |-> [exists |-> TRUE, text |-> CutRecord(keep[1])], value |-> FALSE]
        ELSE [file |-> RewrittenFile(keep), value |-> TRUE]

\* n of load_last(n) and delete_last(n)
LastCounts == 0 .. (MaxLines + 1)

\* ReadingPersistence.load_last(n)
LoadLast ==
    /\ LET all_readings == load_all(store)
       IN  \E n \in LastCounts :
              storeRet' = [op |-> "load_last", n |-> n,
                           value |-> load_last(all_readings, n), before |-> store]
    /\ UNCHANGED <<store, storeLog>>
    /\ UNCHANGED <<deckVars, spreadVars, readVars, loadVars, lookupVars, configVars, cmdVars>>

\* the writes that left the file `file` after a call on the store
LogAfter(file, keep) ==
    IF file = store THEN storeLog
    ELSE IF ~file.exists THEN <<>>
    ELSE IF file = RewrittenFile(keep)
    THEN [i \in DOMAIN keep |-> [reading |-> keep[i], ok |-> TRUE, line |-> <<>>]]
    ELSE <<[reading |-> None, ok |-> FALSE, line |-> file.text]>>

\* ReadingPersistence.delete_last(n)
DeleteLast ==
    /\ LET all_readings == load_all(store)
       IN  \E n \in LastCounts, went \in {"written", "refused", "cut"} :
              LET r == delete_last(store, all_readings, n, went)
              IN  /\ store' = r.file
                  /\ storeLog' = LogAfter(r.file, readings_to_keep(all_readings, n))
                  /\ storeRet' = [op |-> "delete_last", n |-> n, value |-> r.value,
                                  before |-> store]
    /\ UNCHANGED <<deckVars, spreadVars, readVars, loadVars, lookupVars, configVars, cmdVars>>

InitHistory ==
    /\ InitSampleDeck /\ InitSpread /\ InitRead
    /\ InitLoaded /\ InitLookup /\ InitHistoryStore /\ InitNoUserConfig /\ InitCmd

NextHistory == LoadAll \/ LoadLast \/ DeleteLast

SpecHistory == InitHistory /\ [][NextHistory]_vars

----------------------------------------------------------------------------
(* ai.py: one interpret_reading call in program order.  aiRun.pc is the    *)
(* position of the call, aiRun.calls the number of provider calls made,    *)
(* aiRun.events what happened, in order.                                   *)

\* the reading the call is made on
AttemptReading == CHOOSE r \in StoredReadings : r.question = None

\* variant of AfterFailure: the call is made again
AfterFailureRetry == "try"

\* lines 115-121: where a raise inside the try leads
AfterFailure == "except"

\* lines 74-92: provider, model configuration, API key
AttemptBegin ==
    /\ aiRun = NotCalled
    /\ \E provider \in Providers \cup {None},
          default_provider \in ConfiguredDefaults,
          has_model \in BOOLEAN,
          env \in [ANTHROPIC_API_KEY : ApiKeys, OPENAI_API_KEY : ApiKeys] :
          LET resolved_provider == IF provider # None THEN provider
                                   ELSE default_provider
          IN  IF KeyMissing(resolved_provider, get_api_key(resolved_provider, env))
              THEN aiRun' = [kind |-> "run", pc |-> "done", provider |-> provider,
                             resolved_provider |-> resolved_provider,
                             env |-> env,
                             api_key |-> get_api_key(resolved_provider, env),
                             has_model |-> has_model, calls |-> 0,
                             events |-> <<"no_api_key", "fallback">>,
                             ret |-> Fallback(AttemptReading)]
              ELSE aiRun' = [kind |-> "run", pc |-> "try", provider |-> provider,
                             resolved_provider |-> resolved_provider,
                             env |-> env,
                             api_key |-> get_api_key(resolved_provider, env),
                             has_model |-> has_model, calls |-> 0,
                             events |-> <<>>, ret |-> NotCalled]
    /\ UNCHANGED <<deckVars, spreadVars, readVars, loadVars, lookupVars, storeVars>>
    /\ UNCHANGED <<configVars, clearRun>>

\* lines 95-105: the prompt is built, the arguments of acompletion are
\* evaluated (model_config["model"] raises KeyError without a model) and
\* the provider is called
AttemptCall ==
    /\ aiRun.kind = "run" /\ aiRun.pc = "try"
    /\ aiRun.calls < MaxCalls
    /\ IF ~aiRun.has_model
       THEN aiRun' = [aiRun EXCEPT !.pc = AfterFailure,
                                   !.events = Append(@, "error")]
       ELSE aiRun' = [aiRun EXCEPT !.pc = "await", !.calls = @ + 1,
                                   !.events = Append(@, "acompletion")]
    /\ UNCHANGED <<deckVars, spreadVars, readVars, loadVars, lookupVars, storeVars>>
    /\ UNCHANGED <<configVars, clearRun>>

\* lines 97-113: the provider answers, times out or fails
AttemptAnswer ==
    /\ aiRun.kind = "run" /\ aiRun.pc = "await"
    /\ \E outcome \in ProviderOutcomes :
          IF outcome.kind # "content"
          THEN aiRun' = [aiRun EXCEPT !.pc = AfterFailure,
                                      !.events = Append(@, outcome.kind)]
          ELSE IF outcome.content = None
          THEN aiRun' = [aiRun EXCEPT !.pc = "done",
                                      !.events = @ \o <<"none_content", "fallback">>,
                                      !.ret = Fallback(AttemptReading)]
          ELSE aiRun' = [aiRun EXCEPT !.pc = "done",
                                      !.events = Append(@, "content"),
                                      !.ret = Return(outcome.content)]
    /\ UNCHANGED <<deckVars, spreadVars, readVars, loadVars, lookupVars, storeVars>>
    /\ UNCHANGED <<configVars, clearRun>>

\* lines 115-121: both handlers print and evaluate the fallback expression
AttemptExcept ==
    /\ aiRun.kind = "run" /\ aiRun.pc = "except"
    /\ aiRun' = [aiRun EXCEPT !.pc = "done",
                               !.events = Append(@, "fallback"),
                               !.ret = Fallback(AttemptReading)]
    /\ UNCHANGED <<deckVars, spreadVars, readVars, loadVars, lookupVars, storeVars>>
    /\ UNCHANGED <<configVars, clearRun>>

InitAttempt == InitSampleDeck /\ InitSpread /\ InitRead /\ InitLib

NextAttempt == AttemptBegin \/ AttemptCall \/ AttemptAnswer \/ AttemptExcept

SpecAttempt == InitAttempt /\ [][NextAttempt]_vars

----------------------------------------------------------------------------
(* cli.py: one run of the `read` command, in program order.  pc is the     *)
(* position of the run; a run that raises or exits ends at "done".         *)

\* values of --spread and --focus: not given, registry keys whose spread
\* the model's deck can fill, valid focus values, and unknown words
ReadSpreadArgs ==
    {None, <<"bogus">>} \cup {k \in SpreadKeys : card_count(SPREADS[k]) <= DeckSize}

ReadFocusArgs == {None, <<"bogus">>} \cup FocusAreas

\* what gather_reading_inputs returns: None when the user cancels, else
\* (spread_name, focus_area, question, use_ai, show_imagery, show_static)
GatherResults ==
    {None,
     <<"single", "general", "<None>", "True", "False", "True">>,
     <<"three", "career", "Should I freelance?", "False", "True", "False">>}

\* a, b, c, d, e = result
Unpack5(result) ==
    IF Len(result) > 5
    THEN Raise("ValueError", <<"too many values to unpack (expected 5)">>)
    ELSE IF Len(result) < 5
    THEN Raise("ValueError", <<"not enough values to unpack">>)
    ELSE Return(result)

\* deck.py, line 118: the number of cards of a loaded deck
FullDeckSize == 78

\* `remaining` of a loaded deck, its cards named by their places
FullDeck == [i \in 1 .. FullDeckSize |-> i]

\* variant of ReadDrawCount: three cards are drawn for every spread
ReadDrawsThree(spread_layout) == 3

\* line 173: the argument of deck.draw
ReadDrawCount(spread_layout) == card_count(spread_layout)

\* lines 171-176: shuffle, get_spread, draw, create_reading on the deck
\* that load_default returned
PerformReading(spread_name, focus_area, question, order, flags, now) ==
    LET layout == get_spread(spread_name)
    IN  IF layout.kind = "raise" THEN layout
        ELSE IF DrawTooMany(ReadDrawCount(layout.value), order)
        THEN DrawError(ReadDrawCount(layout.value), order)
        ELSE create_reading(layout.value,
                            DrawnList(order, ReadDrawCount(layout.value), flags),
                            focus_area, question, now).ret

\* line 173: `remaining` of the deck after the draw
ReadRemaining(spread_name, order) ==
    RemainingAfterDraw(order, ReadDrawCount(get_spread(spread_name).value))

ReadEnds(ret, out) ==
    /\ pc' = "done"
    /\ readRet' = ret
    /\ readOut' = readOut \o out
    /\ UNCHANGED <<rd, readErr>>

\* lines 146-176: load the deck, take the parameters, perform the reading
ReadBegin ==
    /\ pc = "start"
    /\ \E spread \in ReadSpreadArgs, focus \in ReadFocusArgs,
          question \in Questions, no_ai \in BOOLEAN :
          IF ~(Truthy(spread) /\ Truthy(focus))
          THEN \E result \in GatherResults :
                 IF result = None
                 THEN ReadEnds(Exit(0), <<Block("echo", <<"Reading cancelled.">>)>>)
                 ELSE ReadEnds(Unpack5(result), <<>>)
          ELSE IF focus \notin FocusAreas
          THEN ReadEnds(Raise("ValueError", focus \o <<" is not a valid FocusArea">>),
                        <<>>)
          ELSE \E order \in ShuffleOutcomes(cards, cards),
                  flags \in [1 .. DeckSize -> BOOLEAN], now \in Timestamps :
                 LET r == PerformReading(spread, focus, question, order, flags, now)
                 IN  IF r.kind = "raise"
                     THEN ReadEnds(r, <<>>)
                     ELSE /\ pc' = "created"
                          /\ rd' = [kind |-> "locals", reading |-> r.value,
                                    use_ai |-> ~no_ai, attempt |-> "not_requested",
                                    save_readings |-> FALSE,
                                    remaining |-> ReadRemaining(spread, order)]
                          /\ UNCHANGED <<readRet, readOut, readErr>>
    /\ UNCHANGED <<deckVars, spreadVars, libVars>>

\* lines 178-193: the optional AI step
ReadInterpret ==
    /\ pc = "created"
    /\ pc' = "interpreted"
    /\ IF ~rd.use_ai
       THEN UNCHANGED <<rd, readErr>>
       ELSE \E provider \in Providers \cup {None},
               default_provider \in ConfiguredDefaults,
               has_model \in BOOLEAN,
               env \in [ANTHROPIC_API_KEY : ApiKeys, OPENAI_API_KEY : ApiKeys],
               outcome \in ProviderOutcomes :
               LET r == interpret_reading_sync(rd.reading, provider, default_provider,
                                               has_model, env, outcome)
                   attempt == AttemptKind(provider, default_provider, has_model, env,
                                          outcome)
               IN  IF r.kind = "return"
                   THEN /\ rd' = [rd EXCEPT !.reading.interpretation = r.value,
                                            !.attempt = attempt]
                        /\ UNCHANGED readErr
                   ELSE /\ rd' = [rd EXCEPT !.attempt = attempt]
                        /\ readErr' = readErr \o
                               <<Block("warning",
                                       <<"AI interpretation failed: ">> \o <<r.exc>>
                                           \o <<"Using static interpretation instead.">>)>>
    /\ UNCHANGED <<deckVars, spreadVars, libVars, readRet, readOut>>

\* ReadingPersistence(config_override), persistence.py:49-52: the path
\* given, else the one the Config is asked for
ReadingPersistenceInit(config_override) ==
    IF Truthy(config_override) THEN Return(config_override)
    ELSE ConfigGetAttr("get_readings_path")

\* lines 195-198: auto-save; ReadingPersistence() asks the Config for
\* get_readings_path, save() itself never raises
ReadSave ==
    /\ pc = "interpreted"
    /\ \E save_readings \in BOOLEAN, went \in {"written", "refused", "cut"} :
          LET persistence == ReadingPersistenceInit(None)
          IN  /\ rd' = [rd EXCEPT !.save_readings = save_readings]
              /\ IF ~save_readings
                 THEN pc' = "saved" /\ UNCHANGED <<store, readRet>>
                 ELSE IF persistence.kind = "raise"
                 THEN pc' = "done" /\ readRet' = persistence /\ UNCHANGED store
                 ELSE /\ pc' = "saved"
                      /\ store' = CASE went = "written" -> SavedFile(store, rd.reading)
                                    [] went = "refused" -> store
                                    [] went = "cut" -> CutFile(store, rd.reading)
                      /\ UNCHANGED readRet
    /\ UNCHANGED <<deckVars, spreadVars, loadVars, lookupVars, configVars, cmdVars>>
    /\ UNCHANGED <<storeLog, storeRet, readOut, readErr>>

\* lines 200-210: the output
ReadOutput ==
    /\ pc = "saved"
    /\ \E json_output \in BOOLEAN, show_imagery \in BOOLEAN,
          config_show_imagery \in BOOLEAN, is_terminal \in BOOLEAN :
          LET shown == IF json_output
                       THEN dump_json(rd.reading)
                       ELSE display_reading(rd.reading, FALSE,
                                            show_imagery \/ config_show_imagery,
                                            is_terminal)
          IN  /\ pc' = "done"
              /\ readRet' = shown.ret
              /\ readOut' = readOut \o shown.out
              /\ rd' = [rd EXCEPT !.kind = IF json_output THEN "json"
                                           ELSE IF is_terminal THEN "rich"
                                           ELSE "plain"]
    /\ UNCHANGED <<deckVars, spreadVars, libVars, readErr>>

InitRun == InitSampleDeck /\ InitSpread /\ InitRead /\ InitLib

NextRead == ReadBegin \/ ReadInterpret \/ ReadSave \/ ReadOutput

SpecRead == InitRun /\ [][NextRead]_vars

----------------------------------------------------------------------------
(* config.py: Config.get under a changing environment *)

InitConfigured ==
    /\ InitSampleDeck /\ InitSpread /\ InitRead
    /\ InitLoaded /\ InitLookup /\ InitStore /\ InitConfig /\ InitCmd

NextConfig == SetEnv \/ ConfigGet

SpecConfig == InitConfigured /\ [][NextConfig]_vars

----------------------------------------------------------------------------
(* lookup_card between the shuffle, draw and reset calls of one deck.      *)

\* variant of SearchedCards: the cards not yet drawn are searched
SearchedRemaining(all, rem) == rem

\* lookup_card, line 257: the list the matches are taken from, deck.cards
SearchedCards(all, rem) == all

\* the names of the dataset of this specification, in the order of the file
CatalogNames ==
    <<AceOfPentacles,
      <<"T", "h", "e", " ", "S", "u", "n">>,
      TwoOfPentacles,
      <<"S", "u", "n">>>>

\* the dataset of this specification
CatalogFile ==
    [i \in 1 .. DeckSize |-> [id |-> i, value_int |-> i % 2, name |-> CatalogNames[i]]]

\* the search terms of this specification: no word, part of a name, an
\* alias, a name in capitals
CatalogSearches ==
    {<<>>, <<"t", "w", "o">>, <<"p", "e", "n", "t", "s">>, <<"S", "U", "N">>}

\* lookup_card(deck, search_term) on a deck in use
LookupCard ==
    /\ \E search_term \in CatalogSearches :
          /\ lookupArg' = search_term
          /\ lookupSearch' = SearchLower(search_term)
          /\ lookupRet' =
                 Return(lookup_card(SearchedCards(cards, remaining), search_term))
    /\ lastOp' = [op |-> "lookup", count |-> 0, before |-> remaining, prev |-> lastOp.op]
    /\ UNCHANGED <<cards, remaining, deckRet, drawnSince, cycles, constructed>>
    /\ UNCHANGED <<spreadVars, readVars, loadVars, storeVars, configVars, cmdVars>>

InitCatalogDeck ==
    /\ cards = LoadCatalog(CatalogFile)
    /\ remaining = cards
    /\ deckRet = Return(None)
    /\ lastOp = [op |-> "init", count |-> 0, before |-> <<>>, prev |-> "none"]
    /\ drawnSince = <<>>
    /\ cycles = 0
    /\ constructed = cards

InitCatalog == InitCatalogDeck /\ InitSpread /\ InitRead /\ InitLib

NextCatalog == Shuffle \/ DrawAny \/ Reset \/ LookupCard

\* One deck under every sequence of shuffle, draw, reset and lookup_card
SpecCatalog == InitCatalog /\ [][NextCatalog]_vars

----------------------------------------------------------------------------
(* cli.py: one run of the `clear-history` command on a store found on disk *)

\* values of --last: not given, or an int
LastOptions ==
    {[given |-> FALSE, n |-> 0]} \cup [given : {TRUE}, n : (0 - 1) .. (MaxLines + 1)]

\* variant of Confirmed: the answer to the prompt is not looked at
ConfirmIgnored(confirm) == TRUE

\* lines 389 and 412: `if not confirm` returns, otherwise the deletion follows
Confirmed(confirm) == confirm

\* the answer typer.confirm returned, as the run records it
Answer(confirm) == IF confirm THEN "confirmed" ELSE "declined"

\* ReadingPersistence.clear_all(): the file and the result when unlinking
\* does what `went` says
clear_all(file, went) ==
    IF ~file.exists THEN [file |-> file, value |-> TRUE]
    ELSE IF went = "refused" THEN [file |-> file, value |-> FALSE]
    ELSE [file |-> [exists |-> FALSE], value |-> TRUE]

\* lines 393-398 and 416-421: the run after the deletion `d`
ClearOutcome(d, calls) ==
    [ret |-> IF d.value THEN Return(None) ELSE Exit(1), file |-> d.file, calls |-> calls]

\* clear_history, lines 365-434, with `persistence` the outcome of
\* ReadingPersistence() and `readings` what load_all() returns on `file`:
\* how the run ends, the file it leaves, the prompts and deletions it made
clear_history(save_readings, persistence, file, readings, last, all, confirm, went) ==
    IF ~save_readings THEN [ret |-> Exit(0), file |-> file, calls |-> <<>>]
    ELSE IF persistence.kind = "raise"
    THEN [ret |-> persistence, file |-> file, calls |-> <<>>]
    ELSE IF readings = <<>> THEN [ret |-> Return(None), file |-> file, calls |-> <<>>]
    ELSE IF all
    THEN IF ~Confirmed(confirm)
         THEN [ret |-> Return(None), file |-> file, calls |-> <<Answer(confirm)>>]
         ELSE ClearOutcome(clear_all(file, went), <<Answer(confirm), "clear_all">>)
    ELSE IF last.given
    THEN IF last.n <= 0 THEN [ret |-> Exit(1), file |-> file, calls |-> <<>>]
         ELSE IF ~Confirmed(confirm)
         THEN [ret |-> Return(None), file |-> file, calls |-> <<Answer(confirm)>>]
         ELSE ClearOutcome(delete_last(file, readings, last.n, went),
                           <<Answer(confirm), "delete_last">>)
    ELSE [ret |-> Exit(1), file |-> file, calls |-> <<>>]

\* the `clear-history` command
ClearHistory ==
    /\ clearRun = NotCalled
    /\ LET readings == load_all(store)
       IN  \E save_readings \in BOOLEAN, last \in LastOptions, all \in BOOLEAN,
              confirm \in BOOLEAN, went \in {"written", "refused", "cut"} :
              LET r == clear_history(save_readings, ReadingPersistenceInit(None), store,
                                     readings, last, all, confirm, went)
              IN  /\ store' = r.file
                  /\ storeLog' = LogAfter(r.file, readings_to_keep(readings, last.n))
                  /\ clearRun' = [kind |-> "run", save_readings |-> save_readings,
                                  last |-> last, all |-> all, ret |-> r.ret,
                                  calls |-> r.calls, before |-> store]
    /\ UNCHANGED <<deckVars, spreadVars, readVars, loadVars, lookupVars, configVars>>
    /\ UNCHANGED <<storeRet, aiRun>>

NextClear == ClearHistory

SpecClear == InitHistory /\ [][NextClear]_vars

----------------------------------------------------------------------------
(* Properties of the deck, checked under Spec *)

Ids(s) == {s[i].id : i \in DOMAIN s}

\* the list of cards s holds every catalog card exactly once
EachCatalogCardOnce(s) ==
    /\ Len(s) = Len(cards)
    /\ \A c \in Range(cards) : Cardinality({i \in DOMAIN s : s[i].id = c.id}) = 1

DrawReturned == lastOp.op = "draw" /\ deckRet.kind = "return"

CardsOf(drawn) == [i \in DOMAIN drawn |-> drawn[i].card]

\* C4: in every cycle of shuffle() followed by draw(all), whatever happened
\* in earlier cycles, the draw succeeds and the cards it returns hold every
\* catalog card id exactly once.
C4_CycleReturnsEachCardOnce ==
    (lastOp.op = "draw" /\ lastOp.prev = "shuffle" /\ lastOp.count = DeckSize)
        => /\ deckRet.kind = "return"
           /\ EachCatalogCardOnce(CardsOf(deckRet.value))

\* C4 witness: the last of MaxCycles consecutive shuffle + draw(all) cycles
C4_Witness ==
    /\ lastOp.op = "draw" /\ lastOp.prev = "shuffle" /\ lastOp.count = DeckSize
    /\ cycles = MaxCycles
    /\ cycles >= 2

\* C5: at every point, the cards drawn since the last shuffle/reset (or the
\* construction) and the cards in `remaining` have disjoint ids, together
\* they are exactly the catalog's ids, and no card was returned twice.
C5_DrawWithoutReplacement ==
    /\ Ids(drawnSince) \cap Ids(remaining) = {}
    /\ Ids(drawnSince) \cup Ids(remaining) = Ids(cards)
    /\ Cardinality(Ids(drawnSince)) = Len(drawnSince)
    /\ Cardinality(Ids(remaining)) = Len(remaining)

\* C5 witness: the second non-empty draw after a shuffle that changed the
\* order, with cards still remaining
C5_Witness ==
    /\ DrawReturned
    /\ Len(deckRet.value) > 0
    /\ Len(drawnSince) > Len(deckRet.value)
    /\ remaining # <<>>
    /\ drawnSince \o remaining # cards

\* C6: a draw(count) with count greater than the number of cards remaining
\* raises an error that reports the requested count and the exact number
\* remaining, and leaves `remaining` as it was.
C6_InsufficientCards ==
    (lastOp.op = "draw" /\ lastOp.count > Len(lastOp.before))
        => /\ deckRet.kind = "raise"
           /\ deckRet.exc = "ValueError"
           /\ deckRet.msg = <<"Cannot draw ">> \o Str(lastOp.count)
                  \o <<" cards, only ">> \o Str(Len(lastOp.before))
                  \o <<" remaining">>
           /\ remaining = lastOp.before

\* C6 witness: a draw of more cards than remain in a partly drawn deck
C6_Witness ==
    /\ lastOp.op = "draw"
    /\ lastOp.count > Len(lastOp.before)
    /\ Len(lastOp.before) > 0
    /\ Len(lastOp.before) < Len(cards)

\* what C7 says of a draw that returned
DrawIsFifo ==
    /\ Len(deckRet.value) = lastOp.count
    /\ \A i \in 1 .. Len(deckRet.value) :
          /\ deckRet.value[i].card = lastOp.before[i]
          /\ deckRet.value[i].position = i - 1
    /\ remaining = DropFirst(lastOp.before, lastOp.count)

\* C7 as stated: every successful draw(count) returns exactly count
\* DrawnCards, the i-th holding the i-th card of the old `remaining` with
\* position i, and removes them from the front of `remaining`.
C7_Original == DrawReturned => DrawIsFifo

\* C7 amended: the same, of every successful draw(count) with count >= 0.
C7_DrawIsFifo == (DrawReturned /\ lastOp.count >= 0) => DrawIsFifo

\* C7 witness: a draw of two or more cards that is not the first draw
\* since the shuffle
C7_Witness ==
    /\ DrawReturned
    /\ lastOp.count >= 2
    /\ Len(drawnSince) > Len(deckRet.value)
    /\ drawnSince \o remaining # cards

\* C8: after shuffle(), called in any deck state, `remaining` holds every
\* catalog card exactly once.
C8_ShuffleRestoresFullDeck ==
    lastOp.op = "shuffle" => EachCatalogCardOnce(remaining)

\* C8 witness: a shuffle of a partly drawn deck
C8_Witness ==
    /\ lastOp.op = "shuffle"
    /\ Len(lastOp.before) > 0
    /\ Len(lastOp.before) < Len(cards)

\* C9: after reset(), called in any deck state, `remaining` is the catalog
\* in load order, which is non-decreasing in value_int and is what
\* `remaining` was right after construction.
C9_ResetRestoresLoadOrder ==
    lastOp.op = "reset"
        => /\ remaining = cards
           /\ remaining = constructed
           /\ \A i, j \in DOMAIN remaining :
                 i < j => remaining[i].value_int <= remaining[j].value_int

\* C9 witness: a reset of a shuffled, partly drawn deck whose order differed
\* from the load order, on a catalog with more than one value_int
C9_Witness ==
    /\ lastOp.op = "reset"
    /\ Len(lastOp.before) > 1
    /\ Len(lastOp.before) < Len(cards)
    /\ lastOp.before # DropFirst(cards, Len(cards) - Len(lastOp.before))
    /\ \E i, j \in DOMAIN cards : cards[i].value_int # cards[j].value_int

----------------------------------------------------------------------------
(* Properties of create_reading and interpret_reading, checked under       *)
(* SpecReading                                                             *)

AttemptFailed ==
    /\ aiArgs.kind = "called"
    /\ aiArgs.attempt \in {"no_api_key", "timeout", "error", "none_content"}

\* C1: whenever the interpretation attempt fails (no API key for a provider
\* other than ollama, a timeout, another exception, a response whose
\* content is None), interpret_reading returns the reading's
\* baseline_interpretation.
C1_FallbackIsBaseline ==
    AttemptFailed
        => /\ aiRet.kind = "return"
           /\ aiRet.value = spreadRet.value.baseline_interpretation

\* C3: interpret_reading never raises: for every reading, provider (given
\* or resolved from the configured default) and provider outcome, the call
\* returns.
C3_InterpretNeverRaises ==
    aiArgs.kind = "called" => aiRet.kind = "return"

\* C10: create_reading on a spread whose number of positions differs from
\* the number of cards raises an error naming the expected and the actual
\* count, produces no Reading and leaves every card as it was.
C10_CountMismatchFails ==
    (spreadArgs.kind = "called"
        /\ Len(spreadArgs.cards) # Len(spreadArgs.spread.positions))
        => /\ spreadRet.kind = "raise"
           /\ spreadRet.exc = "ValueError"
           /\ spreadRet.msg = <<"Spread '">> \o spreadArgs.spread.name
                  \o <<"' requires ">> \o Str(Len(spreadArgs.spread.positions))
                  \o <<" cards, ">> \o <<"got ">> \o Str(Len(spreadArgs.cards))
           /\ cardsArg = spreadArgs.cards

\* C10 witness: the ten-position spread given fewer cards ("requires 10 cards")
C10_Witness ==
    /\ spreadArgs.kind = "called"
    /\ spreadArgs.spread = CELTIC_CROSS
    /\ Len(spreadArgs.spread.positions) = 10
    /\ Len(spreadArgs.cards) > 0
    /\ Len(spreadArgs.cards) < 10

\* C11: after a successful create_reading, the i-th card of the reading is
\* the i-th input card and its position_meaning is the i-th position of the
\* spread.
C11_PositionsByIndex ==
    (spreadArgs.kind = "called" /\ spreadRet.kind = "return")
        => /\ Len(spreadRet.value.cards) = Len(spreadArgs.cards)
           /\ \A i \in DOMAIN spreadRet.value.cards :
                 LET dc == spreadRet.value.cards[i]
                 IN  /\ dc.card = spreadArgs.cards[i].card
                     /\ dc.reversed = spreadArgs.cards[i].reversed
                     /\ dc.position = spreadArgs.cards[i].position
                     /\ dc.position_meaning = spreadArgs.spread.positions[i]

\* C11 witness: three distinct cards on the three-card spread get Past,
\* Present, Future in draw order
C11_Witness ==
    /\ spreadRet.kind = "return"
    /\ spreadArgs.spread = THREE_CARD
    /\ spreadRet.value.cards[1].position_meaning = <<"Past">>
    /\ spreadRet.value.cards[2].position_meaning = <<"Present">>
    /\ spreadRet.value.cards[3].position_meaning = <<"Future">>
    /\ spreadRet.value.cards[1].card # spreadRet.value.cards[3].card

\* C12: every Reading returned by create_reading has as many cards as the
\* spread has positions, a non-empty baseline_interpretation and no
\* interpretation.
C12_ReadingAtConstruction ==
    (spreadArgs.kind = "called" /\ spreadRet.kind = "return")
        => /\ Len(spreadRet.value.cards) = Len(spreadArgs.spread.positions)
           /\ spreadRet.value.baseline_interpretation # None
           /\ spreadRet.value.baseline_interpretation # <<>>
           /\ spreadRet.value.interpretation = None

\* C12 witness: a Reading built without a question
C12_Witness ==
    /\ spreadArgs.kind = "called"
    /\ spreadRet.kind = "return"
    /\ ~Truthy(spreadArgs.question)
    /\ Len(spreadRet.value.cards) > 0

\* C13: a second create_reading call on the same spread with the same
\* cards, focus area and question returns the same baseline_interpretation
\* as the first, whatever the time of the call.
C13_BaselineDeterministic ==
    (spreadRet.kind = "return" /\ againRet # NotCalled)
        => /\ againRet.kind = "return"
           /\ againRet.value.baseline_interpretation
                  = spreadRet.value.baseline_interpretation

\* C13 witness: the second call was made at another time than the first
C13_Witness ==
    /\ spreadRet.kind = "return"
    /\ againRet.kind = "return"
    /\ againRet.value.timestamp # spreadRet.value.timestamp
    /\ Len(spreadRet.value.cards) > 1

\* the human-readable label of a focus area
FocusLabel(focus_area) ==
    CASE focus_area = <<"career">> -> <<"Career">>
      [] focus_area = <<"relationships">> -> <<"Relationships">>
      [] focus_area = <<"personal", "_", "growth">> -> <<"Personal", " ", "Growth">>
      [] focus_area = <<"spiritual">> -> <<"Spiritual">>
      [] focus_area = <<"general">> -> <<"General">>

\* the pieces `parts` occur in `text` in this order
RECURSIVE InOrder(_, _)
InOrder(parts, text) ==
    IF parts = <<>> THEN TRUE
    ELSE IF text = <<>> THEN FALSE
    ELSE IF parts[1] = text[1] THEN InOrder(Tail(parts), Tail(text))
    ELSE InOrder(parts, Tail(text))

\* what C14 lists for one card
CardParts(dc, label) ==
    label \o CardName(dc.card)
        \o (IF dc.reversed THEN <<"Reversed">> ELSE <<"Upright">>)
        \o (IF dc.reversed THEN ReversedMeaning(dc.card) ELSE UprightMeaning(dc.card))

\* C14: the baseline holds, in this order, the spread's display name, the
\* question (only when one is given), the focus-area label and, for each
\* card in draw order, its position label, name, orientation word and
\* effective meaning (reversed_meaning if reversed, else upright_meaning).
C14_BaselineContents ==
    (spreadArgs.kind = "called" /\ spreadRet.kind = "return")
        => LET a == spreadArgs
               text == spreadRet.value.baseline_interpretation
               parts == a.spread.display_name
                          \o (IF Truthy(a.question) THEN a.question ELSE <<>>)
                          \o FocusLabel(a.focus_area)
                          \o Join([i \in DOMAIN a.cards |->
                                      CardParts(a.cards[i], a.spread.positions[i])],
                                  <<>>)
           IN  /\ InOrder(parts, text)
               /\ Truthy(a.question) <=> "\n**Question**: " \in Range(text)

\* C14 witness: a question is given, a card is reversed and another upright
C14_Witness ==
    /\ spreadArgs.kind = "called"
    /\ spreadRet.kind = "return"
    /\ Truthy(spreadArgs.question)
    /\ \E i, j \in DOMAIN spreadArgs.cards :
          spreadArgs.cards[i].reversed /\ ~spreadArgs.cards[j].reversed

----------------------------------------------------------------------------
(* Properties of the `read` command, checked under SpecRead *)

\* texts of the interpretive blocks written to stdout
ShownTexts ==
    {readOut[i].text :
        i \in {j \in DOMAIN readOut :
                 readOut[j].tag \in {"interpretation", "static", "meaning",
                                     "json:interpretation",
                                     "json:baseline_interpretation"}}}

\* the baseline is shown: its text, or the meaning of every card of it
BaselineShown ==
    \/ rd.reading.baseline_interpretation \in ShownTexts
    \/ \A i \in DOMAIN rd.reading.cards :
          effective_meaning(rd.reading.cards[i]) \in ShownTexts

\* C2: of the runs of `read` that reach the output, whatever the AI step
\* did (not requested, succeeded, timed out, raised, returned nothing, no
\* API key): the command completes without failing and shows the AI
\* interpretation when one was produced, otherwise the baseline.
C2_ReadAlwaysShowsText ==
    (pc = "done" /\ rd.kind \in {"json", "rich", "plain"})
        => /\ readRet = Return(None)
           /\ IF Truthy(rd.reading.interpretation)
              THEN rd.reading.interpretation \in ShownTexts
              ELSE BaselineShown

----------------------------------------------------------------------------
(* Properties of TarotDeck(data_path), checked under SpecLoad *)

\* the line holds a JSON object with every required Card field and a valid type
IsCardRecord(line) ==
    /\ line.json = "object"
    /\ {"id", "type", "value_int"} \subseteq DOMAIN line.data
    /\ line.data.type \in {"major", "minor"}

\* the numbers of the lines of the source that do not hold a card record
OffendingLines == {k \in DOMAIN source.lines : ~IsCardRecord(source.lines[k])}

\* the first of them
FirstOffending == CHOOSE k \in OffendingLines : \A j \in OffendingLines : k <= j

\* C15: the construction succeeds only on a source of exactly DeckSize (78)
\* records, a source of card records of any other number is refused with
\* the count error, and a constructed deck holds DeckSize cards in both
\* `cards` and `remaining`.
C15_ExactRecordCount ==
    loadRet # NotCalled
        => /\ loadRet.kind = "return"
                => /\ source.exists
                   /\ Len(source.lines) = DeckSize
                   /\ Len(cards) = DeckSize
                   /\ Len(remaining) = DeckSize
           /\ (source.exists /\ OffendingLines = {} /\ Len(source.lines) # DeckSize)
                => /\ loadRet = Raise("ValueError",
                                      <<"Expected ">> \o Str(DeckSize)
                                          \o <<" cards, found ">>
                                          \o Str(Len(source.lines)))
                   /\ cards = <<>>

\* C15 witness: a source of one card record too many was refused
C15_Witness ==
    /\ loadRet.kind = "raise"
    /\ source.exists
    /\ OffendingLines = {}
    /\ Len(source.lines) = DeckSize + 1

C17_CatalogInvariants ==
    loadRet.kind = "return"
        => /\ \A i, j \in DOMAIN cards : cards[i].id = cards[j].id => i = j
           /\ \A i \in DOMAIN cards :
                 cards[i].suit # None <=> cards[i].type = "minor"

----------------------------------------------------------------------------
(* Properties of lookup_card, checked under SpecLookup *)

\* the places in the catalog of the cards whose lower-cased name holds the
\* search string
MatchingPlaces ==
    {i \in DOMAIN cards : Contains(lookupSearch, Lower(cards[i].name))}

\* the places of the cards whose lower-cased name is the search string
ExactPlaces == {i \in MatchingPlaces : Lower(cards[i].name) = lookupSearch}

\* the list holds the cards at the places of P, in catalog order
IsListOf(list, P) ==
    /\ Len(list) = Cardinality(P)
    /\ \A n \in DOMAIN list :
          \E i \in P : /\ list[n] = cards[i]
                       /\ Cardinality({j \in P : j < i}) = n - 1

AceOfPents == <<"a", "c", "e", " ", "o", "f", " ", "p", "e", "n", "t", "s">>

TwoOfCoins == <<"t", "w", "o", " ", "o", "f", " ", "c", "o", "i", "n", "s">>

\* s with every `pents` and every `coins` replaced by `pentacles`
AllExpanded(s) ==
    StrReplace(StrReplace(s, aliases[1].alias, aliases[1].full),
               aliases[2].alias, aliases[2].full)

\* the card of that name is in the catalog and the lookup returned it
Resolved(name) ==
    (\E i \in DOMAIN cards : cards[i].name = name)
        => (lookupRet.value.is = "Card" /\ lookupRet.value.card.name = name)

\* C19 as stated: every shorthand token of the search string is replaced
\* by `pentacles` before matching; `ace of pents` resolves to Ace of
\* Pentacles and `two of coins` to Two of Pentacles.
C19_Original ==
    lookupRet # NotCalled
        => /\ lookupSearch = AllExpanded(Lower(lookupArg))
           /\ lookupArg = AceOfPents => Resolved(AceOfPentacles)
           /\ lookupArg = TwoOfCoins => Resolved(TwoOfPentacles)

\* C19 amended: a search string that holds `pentacles` is matched as it
\* is; otherwise every `pents` is replaced by `pentacles` if there is one,
\* and every `coins` only if there is no `pents`; `ace of pents` resolves
\* to Ace of Pentacles and `two of coins` to Two of Pentacles.
C19_AliasExpansion ==
    lookupRet # NotCalled
        => LET s == Lower(lookupArg)
               pents == aliases[1].alias
               coins == aliases[2].alias
               full == aliases[1].full
           IN  /\ lookupSearch =
                     IF Contains(full, s) THEN s
                     ELSE IF Contains(pents, s) THEN StrReplace(s, pents, full)
                     ELSE StrReplace(s, coins, full)
               /\ lookupArg = AceOfPents => Resolved(AceOfPentacles)
               /\ lookupArg = TwoOfCoins => Resolved(TwoOfPentacles)

\* C19 witness: `ace of pents` was looked up in a catalog that holds Ace of
\* Pentacles and Two of Pentacles
C19_Witness ==
    /\ lookupRet # NotCalled
    /\ lookupArg = AceOfPents
    /\ lookupRet.value.is = "Card"
    /\ lookupRet.value.card.name = AceOfPentacles
    /\ \E i \in DOMAIN cards : cards[i].name = TwoOfPentacles

----------------------------------------------------------------------------
(* Properties of ReadingPersistence, checked under SpecStore *)

\* every save call made so far returned True
AllSaved == \A i \in DOMAIN storeLog : storeLog[i].ok

\* the readings given to the save calls, in call order
GivenReadings == [i \in DOMAIN storeLog |-> storeLog[i].reading]

\* C20: starting from no stored file, after k save calls that all returned
\* True the store holds k records, the last save has added one record after
\* the unchanged earlier ones, and load_all returns the k readings given to
\* save, equal field by field and in save order.
C20_AppendOnlyLossless ==
    AllSaved
        => /\ store.exists <=> storeLog # <<>>
           /\ Len(SplitLines(TextOf(store))) = Len(storeLog)
           /\ storeRet.op = "save"
                 => LET lines == SplitLines(TextOf(store))
                    IN  /\ lines # <<>>
                        /\ SubSeq(lines, 1, Len(lines) - 1)
                              = SplitLines(TextOf(storeRet.before))
           /\ storeRet.op = "load_all" => storeRet.value = GivenReadings

\* C20 witness: load_all after two or more saves of different readings, one
\* of them with a quotation mark in its question and one with a line break
\* in its interpretation
C20_Witness ==
    /\ AllSaved
    /\ Len(storeLog) >= 2
    /\ storeRet.op = "load_all"
    /\ \E i, j \in DOMAIN storeLog :
          /\ "\"" \in Range(storeLog[i].reading.question)
          /\ storeLog[j].reading.interpretation # None
          /\ "\n" \in Range(storeLog[j].reading.interpretation)

----------------------------------------------------------------------------
(* Properties of load_all, load_last and delete_last on a store found on   *)
(* disk, checked under SpecHistory                                         *)

\* the readings of the lines that save wrote whole, in stored order
ReadingsWritten(log) ==
    LET Whole(w) == w.ok
        whole == SelectSeq(log, Whole)
    IN  [i \in DOMAIN whole |-> whole[i].reading]

\* C21: for a store holding any mix of valid records, malformed records and
\* blank lines, load_all returns exactly the valid readings in stored order,
\* and with no stored file it returns the empty list.
C21_LoadAllTolerant ==
    storeRet.op = "load_all"
        => /\ storeRet.value = ReadingsWritten(storeLog)
           /\ ~store.exists => storeRet.value = <<>>

\* the number of readings a call with n = storeRet.n is about, of `total`
LastN(total) == Min(storeRet.n, total)

\* C22: for every n >= 0, load_last(n) returns the last min(n, total)
\* readings of load_all() in stored order, never more than n, and the empty
\* list when nothing is stored.
C22_LoadLast ==
    storeRet.op = "load_last"
        => LET all == load_all(store)
           IN  /\ Len(storeRet.value) <= storeRet.n
               /\ storeRet.value
                     = SubSeq(all, Len(all) - LastN(Len(all)) + 1, Len(all))
               /\ all = <<>> => storeRet.value = <<>>

\* C23: for every n >= 0, after delete_last(n) returns True, load_all()
\* returns the readings it returned before the call minus its last
\* min(n, total), the older ones in their order; when no readings are left
\* the file is removed; on an empty or missing store nothing changes.
C23_DeleteLast ==
    (storeRet.op = "delete_last" /\ storeRet.value)
        => LET before == load_all(storeRet.before)
               after == load_all(store)
           IN  /\ after = SubSeq(before, 1, Len(before) - LastN(Len(before)))
               /\ (before # <<>> /\ after = <<>>) => ~store.exists
               /\ before = <<>> => store = storeRet.before

----------------------------------------------------------------------------
(* Properties of the save step of `read`, checked under SpecRead *)

\* C24: when output.save_readings is enabled, no failure of the persistence
\* step raises out of `read` or keeps the reading from being output: a run
\* that reached the save step goes on to the output step.
C24_PersistenceBestEffort ==
    (pc = "done" /\ rd.kind # "none" /\ rd.save_readings)
        => rd.kind \in {"json", "rich", "plain"}

----------------------------------------------------------------------------
(* Properties of Config.get, checked under SpecConfig *)

\* the environment variable named after a key path, for the paths that have
\* one in the model's environment
VariableOf(key_path) ==
    CASE key_path = <<"models", ".", "default_provider">>
            -> <<"TAROTCLI_", "MODELS", "_", "DEFAULT_PROVIDER">>
      [] key_path = <<"output", ".", "save_readings">>
            -> <<"TAROTCLI_", "OUTPUT", "_", "SAVE_READINGS">>
      [] OTHER -> <<>>

\* the keys of a key path
KeysOf(key_path) == [i \in 1 .. ((Len(key_path) + 1) \div 2) |-> key_path[2 * i - 1]]

\* what a configuration file holds at the keys: a value ("found"), nothing
\* because a section on the way lacks the key ("absent"), or nothing because
\* a value on the way is not a section ("blocked")
RECURSIVE Holds(_, _)
Holds(tree, keys) ==
    IF keys = <<>> THEN [at |-> "found", v |-> tree]
    ELSE IF tree.t # "dict" THEN [at |-> "blocked"]
    ELSE IF Head(keys) \notin DOMAIN tree.d THEN [at |-> "absent"]
    ELSE Holds(tree.d[Head(keys)], Tail(keys))

\* a section of the merged configuration keeps the defaults the user's
\* section does not name and has the user's scalars
MergedSection(v, user, system) ==
    /\ v.t = "dict"
    /\ \A k \in DOMAIN system.d \ DOMAIN user.d : v.d[k] = system.d[k]
    /\ \A k \in DOMAIN user.d :
          user.d[k].t # "dict" => (k \in DOMAIN v.d /\ v.d[k] = user.d[k])

\* C25: Config.get(key_path, default) returns the environment variable
\* TAROTCLI_<KEY_PATH in upper case, dots as underscores> if it is set at
\* the time of the call, else the value at the path in the user's
\* configuration merged over the bundled defaults (what the user did not
\* override keeps its default), else the default given (None if omitted).
C25_GetPrecedence ==
    configRet.op = "get"
        => LET name == VariableOf(configRet.key_path)
               keys == KeysOf(configRet.key_path)
               user == Holds(userConfig, keys)
               system == Holds(SystemDefaults, keys)
               v == configRet.value
           IN  IF name \in DOMAIN environ /\ environ[name].set
               THEN v = parse_env_value(environ[name].v)
               ELSE CASE user.at = "found" /\ user.v.t # "dict" -> v = user.v
                      [] user.at = "found" /\ user.v.t = "dict" ->
                            IF system.at = "found" /\ system.v.t = "dict"
                            THEN MergedSection(v, user.v, system.v)
                            ELSE v = user.v
                      [] user.at = "absent" ->
                            IF system.at = "found" THEN v = system.v
                            ELSE v = configRet.default
                      [] user.at = "blocked" -> v = configRet.default

\* C25 witness: get on a path the user's file sets, whose variable was set
\* after construction to something else, returns the variable
C25_Witness ==
    /\ configRet.op = "get"
    /\ configRet.key_path = <<"output", ".", "save_readings">>
    /\ environ[VariableOf(configRet.key_path)].set
    /\ Holds(userConfig, KeysOf(configRet.key_path)).at = "found"
    /\ configRet.value # Holds(userConfig, KeysOf(configRet.key_path)).v

----------------------------------------------------------------------------
(* Properties of one interpret_reading call in steps, checked under        *)
(* SpecAttempt                                                             *)

\* C26: during one interpret_reading call the provider is called at most
\* once; after a timeout or a failure no second provider call is made and
\* the next thing that happens is the fallback.
C26_NoRetries ==
    aiRun.kind = "run"
        => LET events == aiRun.events
           IN  /\ aiRun.calls <= 1
               /\ Cardinality({i \in DOMAIN events : events[i] = "acompletion"}) <= 1
               /\ \A i \in DOMAIN events :
                     events[i] \in {"timeout", "error"}
                         => \/ i = Len(events) /\ aiRun.pc = "except"
                            \/ i + 1 = Len(events) /\ events[i + 1] = "fallback"

\* C26 witness: a call whose provider call timed out and that has gone on
\* to the fallback
C26_Witness ==
    /\ aiRun.kind = "run"
    /\ aiRun.pc = "done"
    /\ aiRun.events = <<"acompletion", "timeout", "fallback">>


----------------------------------------------------------------------------
\* C27: after any sequence of shuffle, draw, reset and lookup_card calls
\* deck.cards holds the DeckSize cards of the construction in the same
\* order; a lookup_card call returns what it returns on the freshly
\* constructed deck, whatever has been shuffled or drawn, and leaves
\* `remaining` as it found it.
C27_CatalogNeverMutated ==
    /\ cards = constructed
    /\ Len(cards) = DeckSize
    /\ lookupRet # NotCalled
           => lookupRet = Return(lookup_card(constructed, lookupArg))
    /\ lastOp.op = "lookup" => remaining = lastOp.before

\* a card is found by name after it has been drawn from a shuffled deck
C27_Witness ==
    /\ lastOp.op = "lookup"
    /\ lastOp.prev = "draw"
    /\ remaining # constructed
    /\ lookupRet # NotCalled
    /\ lookupRet.kind = "return"
    /\ lookupRet.value.is = "Card"
    /\ \A i \in DOMAIN remaining : remaining[i] # lookupRet.value.card


----------------------------------------------------------------------------
----------------------------------------------------------------------------
\* C29: a `read` run without both --spread and --focus asks
\* gather_reading_inputs once.  When the answer is None the run reports the
\* cancellation and exits with code 0 before any reading is made; otherwise
\* the tuple returned is taken apart and the reading is made from it, so
\* the run does not end at the unpacking of the tuple.
C29_InteractiveRead ==
    /\ (\E i \in DOMAIN readOut : readOut[i] = Block("echo", <<"Reading cancelled.">>))
           => readRet = Exit(0) /\ rd = NotCalled
    /\ \A result \in GatherResults \ {None} :
          Unpack5(result).kind = "raise" => readRet # Unpack5(result)


----------------------------------------------------------------------------
\* a run that ended with the file `file` after the prompts and deletions
\* `calls`, on a store `before` holding `readings`, deleted only what a
\* confirmed prompt allowed
SafeOutcome(file, calls, before, readings, save_readings, last, all) ==
    /\ \A i \in DOMAIN calls :
          calls[i] \in {"clear_all", "delete_last"}
              => i > 1 /\ calls[i - 1] = "confirmed"
    /\ file # before => \E i \in DOMAIN calls : calls[i] = "confirmed"
    /\ \/ ~save_readings
       \/ readings = <<>>
       \/ ~all /\ last.given /\ last.n <= 0
       \/ ~all /\ ~last.given
       \/ \E i \in DOMAIN calls : calls[i] = "declined"
       => file = before

====
